---- MODULE Spec2Model ----
(***************************************************************************)
(* Model of the KOOMPI retrieval-and-orchestration pipeline:               *)
(*   koompi_ai/knowledge.py  KnowledgeBase (SQLite articles + FTS5 index)  *)
(*   koompi_ai/llm.py        GeminiLLM.generate and its fallback cascade   *)
(*   koompi_ai/knowledge.py  get_knowledge_base, seed_knowledge_base       *)
(*   koompi_ai/intent.py     IntentClassifier.classify and its patterns    *)
(*                                                                         *)
(* Text is a sequence of characters, each character a one-element string.  *)
(* A code point outside ASCII is written "U+XXXX".  A long literal of the  *)
(* source whose characters the code never inspects (a canned answer, a     *)
(* fixed annotation) is written as one symbol in angle brackets.           *)
(***************************************************************************)
EXTENDS Integers, Sequences, FiniteSets, TLC

\* ------------------------------------------------------------------------
\* Bounds of the model
\* ------------------------------------------------------------------------

\* number of add_article calls a behaviour may make
MaxAdds == 2

\* number of articles of CORE_ARCHWIKI_ARTICLES and of koompi_articles that
\* seed_knowledge_base goes through
MaxCore == 2

MaxKoompi == 1

\* ------------------------------------------------------------------------
\* Text helpers (Python str operations used by the code)
\* ------------------------------------------------------------------------

\* str.isspace for the characters of the model
IsSpace(c) == c \in {" ", "\t", "\n"}

\* characters that are neither \w nor \s for the regular expression engine
PunctChars ==
    {"?", "!", "\"", "'", ".", ",", "-", "+", "*", "%", "(", ")", ":", "#",
     "<", ">", "/", "[", "]", "=", "&", "|", ";", "~", "^", "$", "@"}

IsPunct(c) == c \in PunctChars

UpperChars ==
    {"A", "B", "C", "D", "E", "F", "G", "H", "I", "J", "K", "L", "M",
     "N", "O", "P", "Q", "R", "S", "T", "U", "V", "W", "X", "Y", "Z"}

LowerOf ==
    ("A" :> "a") @@ ("B" :> "b") @@ ("C" :> "c") @@ ("D" :> "d") @@
    ("E" :> "e") @@ ("F" :> "f") @@ ("G" :> "g") @@ ("H" :> "h") @@
    ("I" :> "i") @@ ("J" :> "j") @@ ("K" :> "k") @@ ("L" :> "l") @@
    ("M" :> "m") @@ ("N" :> "n") @@ ("O" :> "o") @@ ("P" :> "p") @@
    ("Q" :> "q") @@ ("R" :> "r") @@ ("S" :> "s") @@ ("T" :> "t") @@
    ("U" :> "u") @@ ("V" :> "v") @@ ("W" :> "w") @@ ("X" :> "x") @@
    ("Y" :> "y") @@ ("Z" :> "z")

LowerChar(c) == IF c \in UpperChars THEN LowerOf[c] ELSE c

\* str.lower
Lower(s) == [i \in 1..Len(s) |-> LowerChar(s[i])]

\* s[:n]
Take(s, n) == IF n >= Len(s) THEN s ELSE SubSeq(s, 1, n)

\* s[a:b] with 0-based, half-open Python indices, 0 <= a
Slice(s, a, b) == IF b <= a THEN <<>> ELSE SubSeq(s, a + 1, IF b > Len(s) THEN Len(s) ELSE b)

\* needle == hay[i .. i+len-1]  (1-based i)
MatchAt(hay, needle, i) ==
    /\ i + Len(needle) - 1 <= Len(hay)
    /\ \A k \in 1..Len(needle) : hay[i + k - 1] = needle[k]

\* needle in hay
Contains(hay, needle) == \E i \in 1..(Len(hay) + 1) : MatchAt(hay, needle, i)

\* str.find: 0-based index of the first occurrence, -1 when absent
Find(hay, needle) ==
    IF Contains(hay, needle)
    THEN (CHOOSE i \in 1..(Len(hay) + 1) :
              /\ MatchAt(hay, needle, i)
              /\ \A j \in 1..(i - 1) : ~MatchAt(hay, needle, j)) - 1
    ELSE -1

\* str.strip
RECURSIVE LStrip(_)
LStrip(s) == IF s /= <<>> /\ IsSpace(Head(s)) THEN LStrip(Tail(s)) ELSE s

RECURSIVE RStrip(_)
RStrip(s) ==
    IF s /= <<>> /\ IsSpace(s[Len(s)]) THEN RStrip(SubSeq(s, 1, Len(s) - 1)) ELSE s

Strip(s) == RStrip(LStrip(s))

\* str.split(): the maximal runs of non-space characters, in order
RECURSIVE SplitFrom(_, _, _)
SplitFrom(s, i, cur) ==
    IF i > Len(s)
    THEN (IF cur = <<>> THEN <<>> ELSE <<cur>>)
    ELSE IF IsSpace(s[i])
         THEN (IF cur = <<>> THEN <<>> ELSE <<cur>>) \o SplitFrom(s, i + 1, <<>>)
         ELSE SplitFrom(s, i + 1, Append(cur, s[i]))

Split(s) == SplitFrom(s, 1, <<>>)

\* sep.join(parts)
RECURSIVE Join(_, _)
Join(sep, parts) ==
    IF parts = <<>> THEN <<>>
    ELSE IF Len(parts) = 1 THEN parts[1]
    ELSE parts[1] \o sep \o Join(sep, Tail(parts))

\* ------------------------------------------------------------------------
\* Inputs of the model
\* ------------------------------------------------------------------------

NoneVal == "None"

Cat_general == <<"g", "e", "n", "e", "r", "a", "l">>
Cat_filesystem == <<"f", "i", "l", "e", "s", "y", "s", "t", "e", "m">>
Cat_package_management ==
    <<"p", "a", "c", "k", "a", "g", "e", "_", "m", "a", "n", "a", "g", "e", "m", "e", "n", "t">>

T_Pacman == <<"P", "a", "c", "m", "a", "n">>
T_Btrfs  == <<"B", "t", "r", "f", "s">>

C_pkg    == <<"p", "k", "g", " ", "t", "o", "o", "l">>
C_sync   == <<"s", "y", "n", "c", " ", "p", "k", "g", "!">>
C_cow    == <<"c", "o", "w", " ", "f", "s", "?">>
C_bang   == <<"!", "f", "s">>

\* argument tuples of add_article: two of them share (title, source) and
\* differ in content, category and url; two share only the title, and one
\* has a content that begins with a punctuation mark
ArticleInputs ==
    { [title |-> T_Pacman, content |-> C_pkg,  category |-> Cat_package_management,
       source |-> "archwiki", url |-> "https://wiki.archlinux.org/title/Pacman"],
      [title |-> T_Pacman, content |-> C_sync, category |-> Cat_general,
       source |-> "archwiki", url |-> NoneVal],
      [title |-> T_Pacman, content |-> C_pkg,  category |-> Cat_general,
       source |-> "custom", url |-> NoneVal],
      [title |-> T_Btrfs,  content |-> C_cow,  category |-> Cat_filesystem,
       source |-> "archwiki", url |-> "https://wiki.archlinux.org/title/Btrfs"],
      [title |-> T_Btrfs,  content |-> C_bang, category |-> Cat_filesystem,
       source |-> "custom", url |-> NoneVal] }

\* queries and prompts: empty, whitespace only, punctuation only, stop words
\* only, matching stored text, matching a canned topic only, matching nothing
Q_empty == <<>>
Q_space == <<" ">>
Q_qmark == <<"?">>
Q_bang  == <<"!">>
Q_bangq == <<"!", " ", "?">>
Q_how   == <<"h", "o", "w", " ", "d", "o", " ", "i">>
Q_pkg   == <<"p", "k", "g">>
Q_Pac   == <<"P", "a", "c", "m", "a", "n", "?">>
Q_cowfs == <<"c", "o", "w", " ", "f", "s">>
Q_hi    == <<"h", "i">>
Q_df    == <<"d", "f">>
Q_zz    == <<"z", "z">>
Q_mix   == <<"p", "k", "g", " ", "c", "o", "w", " ", "f", "s">>

Queries ==
    {Q_empty, Q_space, Q_qmark, Q_bang, Q_bangq, Q_how, Q_pkg, Q_Pac, Q_cowfs,
     Q_hi, Q_df, Q_zz, Q_mix}

Limits == {1, 5}

\* the optional category: None and "" both read as "no filter" (if category:)
NoCategory == <<>>

Categories == {NoCategory, Cat_general, Cat_filesystem}


\* ------------------------------------------------------------------------
\* State
\* ------------------------------------------------------------------------

VARIABLES
    articles,       \* table articles: rows in rowid order
    articles_fts,   \* FTS5 index: rowid -> indexed (title, content, category)
    seq,            \* sqlite_sequence of table articles (AUTOINCREMENT)
    txn,            \* the transaction the writing connection has open
    llm,            \* the GeminiLLM object: model, _is_offline, _kb
    gen,            \* the frame of the generate call in progress
    ret,            \* what the last completed call returned to its caller
    _kb,            \* the module global _kb of knowledge.py
    made,           \* the number of KnowledgeBase objects constructed
    callers         \* the frame of each caller of get_knowledge_base

vars == <<articles, articles_fts, seq, txn, llm, gen, ret, _kb, made, callers>>

\* the module global and the callers that race for it
startup == <<_kb, made, callers>>

\* _kb: Optional[KnowledgeBase] = None
NoInstance == 0

\* the database file as committed, and the write transaction open on it
store == <<articles, articles_fts, seq, txn>>

\* no write transaction is open
NoTxn == [open |-> FALSE]

\* ------------------------------------------------------------------------
\* KnowledgeBase.add_article
\* ------------------------------------------------------------------------

\* the position of the row with this (title, source), 0 when there is none
RowIndex(title, source) ==
    IF \E i \in 1..Len(articles) :
           articles[i].title = title /\ articles[i].source = source
    THEN CHOOSE i \in 1..Len(articles) :
           articles[i].title = title /\ articles[i].source = source
    ELSE 0

\* INSERT OR IGNORE in place of the upsert: a conflicting call changes nothing
UpsertRows_Ignore(a) ==
    LET i == RowIndex(a.title, a.source) IN
    IF i = 0
    THEN Append(articles,
                [id |-> seq + 1, title |-> a.title, content |-> a.content,
                 category |-> a.category, source |-> a.source, url |-> a.url,
                 last_updated |-> seq + 1])
    ELSE articles

\* INSERT OR REPLACE in place of the upsert: the conflicting row is deleted
\* and a new row, with a new id, is inserted
UpsertRows_Replace(a) ==
    LET i == RowIndex(a.title, a.source) IN
    Append(SelectSeq(articles, LAMBDA row : ~(row.title = a.title /\ row.source = a.source)),
           [id |-> seq + 1, title |-> a.title, content |-> a.content,
            category |-> a.category, source |-> a.source, url |-> a.url,
            last_updated |-> seq + 1])

\* INSERT ... ON CONFLICT(title, source) DO UPDATE SET ... RETURNING id :
\* the table after the statement
UpsertRows(a) ==
    LET i == RowIndex(a.title, a.source) IN
    IF i = 0
    THEN Append(articles,
                [id |-> seq + 1, title |-> a.title, content |-> a.content,
                 category |-> a.category, source |-> a.source, url |-> a.url,
                 last_updated |-> seq + 1])
    ELSE [articles EXCEPT ![i] =
                [@ EXCEPT !.content = a.content, !.category = a.category,
                          !.url = a.url, !.last_updated = seq + 1]]

\* RETURNING id
UpsertId(a) ==
    LET i == RowIndex(a.title, a.source) IN
    IF i = 0 THEN seq + 1 ELSE articles[i].id

\* trigger articles_ai: AFTER INSERT, the new row is indexed
articles_ai(fts, new) ==
    [id \in DOMAIN fts \cup {new.id} |->
        IF id = new.id
        THEN [title |-> new.title, content |-> new.content, category |-> new.category]
        ELSE fts[id]]

\* a schema without the update trigger: the index keeps what was inserted
articles_au_Missing(fts, old, new) == fts

\* trigger articles_au: AFTER UPDATE, the old entry is deleted from the index
\* and the new values of the row are indexed
articles_au(fts, old, new) ==
    LET deleted == [id \in DOMAIN fts \ {old.id} |-> fts[id]] IN
    [id \in DOMAIN deleted \cup {new.id} |->
        IF id = new.id
        THEN [title |-> new.title, content |-> new.content, category |-> new.category]
        ELSE deleted[id]]

\* the index after the statement: the trigger of the row written has run
UpsertFts(a) ==
    LET i    == RowIndex(a.title, a.source)
        rows == UpsertRows(a)
    IN  IF i = 0
        THEN articles_ai(articles_fts, rows[Len(rows)])
        ELSE articles_au(articles_fts, articles[i], rows[i])

\* the caller is between two calls
Idle == ret.op = "none" /\ gen.pc = "idle"

\* conn.execute(INSERT ...): the statement and the trigger it fires write in
\* the transaction the connection has opened; other connections go on
\* reading the committed database until conn.commit()
add_article(a) ==
    /\ Idle
    /\ ~txn.open
    /\ seq < MaxAdds
    /\ txn' = [open |-> TRUE, args |-> a, articles |-> UpsertRows(a),
               articles_fts |-> UpsertFts(a), id |-> UpsertId(a)]
    /\ UNCHANGED <<articles, articles_fts, seq, llm, gen, ret, startup>>

\* conn.commit(): the row and its index entry become visible together, and
\* add_article returns the id
Commit ==
    /\ txn.open
    /\ ret.op = "none"
    /\ articles' = txn.articles
    /\ articles_fts' = txn.articles_fts
    /\ seq' = seq + 1
    /\ txn' = NoTxn
    /\ ret' = [op |-> "add_article", args |-> txn.args, raised |-> FALSE,
               error |-> NoneVal, value |-> txn.id]
    /\ UNCHANGED <<llm, gen, startup>>

AddArticle == \E a \in ArticleInputs : add_article(a)

\* ------------------------------------------------------------------------
\* KnowledgeBase.get_article
\* ------------------------------------------------------------------------

ArticleIds == 1..(MaxAdds + 1)

\* SELECT * FROM articles WHERE id = ? : fetchone() gives a row or None
HasRow(article_id) == \E i \in 1..Len(articles) : articles[i].id = article_id

get_article(article_id) ==
    IF HasRow(article_id)
    THEN articles[CHOOSE i \in 1..Len(articles) : articles[i].id = article_id]
    ELSE NoneVal

GetArticle ==
    /\ Idle
    /\ \E article_id \in ArticleIds :
        /\ ret' = [op |-> "get_article", args |-> [article_id |-> article_id],
                   raised |-> FALSE, error |-> NoneVal,
                   found |-> HasRow(article_id), value |-> get_article(article_id)]
        /\ UNCHANGED <<store, llm, gen, startup>>

\* ------------------------------------------------------------------------
\* KnowledgeBase._prepare_query
\* ------------------------------------------------------------------------

stop_words ==
    { <<"t", "h", "e">>, <<"a">>, <<"a", "n">>, <<"i", "s">>, <<"a", "r", "e">>,
      <<"w", "a", "s">>, <<"w", "e", "r", "e">>, <<"h", "o", "w">>, <<"d", "o">>,
      <<"i">>, <<"t", "o">>, <<"w", "h", "a", "t">>, <<"c", "a", "n">>,
      <<"y", "o", "u">> }

\* re.sub(r'[^\w\s]', ' ', query)
SubPunct(query) == [i \in 1..Len(query) |-> IF IsPunct(query[i]) THEN " " ELSE query[i]]

KeptWord(w) == w \notin stop_words /\ Len(w) > 1

\* the words that survive the stop-word and length filter
KeptWords(query) == SelectSeq(Split(Lower(SubPunct(query))), KeptWord)

\* f'"{w}"*'
QuotedPrefix(w) == <<"\"">> \o w \o <<"\"", "*">>

prepare_query(query) ==
    LET cleaned == SubPunct(query)
        words   == KeptWords(query)
    IN  IF words = <<>>
        THEN Lower(cleaned)
        ELSE Join(<<" ", "O", "R", " ">>,
                  [i \in 1..Len(Take(words, 10)) |-> QuotedPrefix(words[i])])

\* ------------------------------------------------------------------------
\* The FTS5 engine: MATCH, bm25, tokenizer unicode61 (the vocabulary of the
\* model is left unchanged by the porter stemmer)
\* ------------------------------------------------------------------------

OrToken == <<"O", "R">>

\* one phrase of a query: "w"* is a prefix term, a bareword an exact term
Fts5Term(tok) ==
    IF Head(tok) = "\""
    THEN [word   |-> SelectSeq(tok, LAMBDA c : c \notin {"\"", "*"}),
          prefix |-> tok[Len(tok)] = "*"]
    ELSE [word |-> tok, prefix |-> FALSE]

\* the parse of a query string: a query without any phrase is a syntax
\* error; phrases are joined by OR where written, by AND otherwise
Fts5Parse(q) ==
    LET toks    == Split(q)
        phrases == SelectSeq(toks, LAMBDA t : t /= OrToken)
    IN  [ok    |-> phrases /= <<>>,
         isOr  |-> \E i \in 1..Len(toks) : toks[i] = OrToken,
         terms |-> [i \in 1..Len(phrases) |-> Fts5Term(phrases[i])]]

\* unicode61: tokens are the lower-cased runs of letters and digits
DocTokens(text) ==
    Split([i \in 1..Len(text) |->
              IF IsPunct(text[i]) \/ text[i] = "_" THEN " " ELSE LowerChar(text[i])])

\* the indexed columns of an entry: title, content, category
EntryTokens(e) == DocTokens(e.title) \o DocTokens(e.content) \o DocTokens(e.category)

TermHits(term, tokens) ==
    Cardinality({i \in 1..Len(tokens) :
        IF term.prefix
        THEN Len(term.word) <= Len(tokens[i])
             /\ SubSeq(tokens[i], 1, Len(term.word)) = term.word
        ELSE tokens[i] = term.word})

Fts5Match(parsed, e) ==
    LET tokens == EntryTokens(e) IN
    IF parsed.isOr
    THEN \E i \in 1..Len(parsed.terms) : TermHits(parsed.terms[i], tokens) > 0
    ELSE \A i \in 1..Len(parsed.terms) : TermHits(parsed.terms[i], tokens) > 0

RECURSIVE SumHits(_, _)
SumHits(terms, tokens) ==
    IF terms = <<>> THEN 0
    ELSE TermHits(Head(terms), tokens) + SumHits(Tail(terms), tokens)

\* bm25(articles_fts): negative for every match, lower for a better match
bm25(parsed, e) == 0 - SumHits(parsed.terms, EntryTokens(e))

\* ------------------------------------------------------------------------
\* KnowledgeBase._fallback_search
\* ------------------------------------------------------------------------

\* x LIKE pattern: % matches any run of characters, _ any one character,
\* letters compare case-insensitively
RECURSIVE Like(_, _)
Like(text, pattern) ==
    IF pattern = <<>> THEN text = <<>>
    ELSE IF Head(pattern) = "%"
         THEN Like(text, Tail(pattern)) \/ (text /= <<>> /\ Like(Tail(text), pattern))
         ELSE /\ text /= <<>>
              /\ (Head(pattern) = "_" \/ LowerChar(Head(pattern)) = LowerChar(Head(text)))
              /\ Like(Tail(text), Tail(pattern))

\* (title LIKE ? OR content LIKE ?) with both parameters f'%{word}%'
LikeCondition(row, word) ==
    LET pattern == <<"%">> \o word \o <<"%">> IN
    Like(row.title, pattern) \/ Like(row.content, pattern)

\* query.lower().split()[:5]
FallbackWords(query) == Take(Split(Lower(query)), 5)

\* WHERE c1 OR ... OR cn [AND category = ?] : AND binds tighter than OR
FallbackWhere(row, words, category) ==
    IF category = NoCategory
    THEN \E k \in 1..Len(words) : LikeCondition(row, words[k])
    ELSE \/ \E k \in 1..(Len(words) - 1) : LikeCondition(row, words[k])
         \/ LikeCondition(row, words[Len(words)]) /\ row.category = category

Ellipsis == <<".", ".", ".">>

\* the for/else loop that builds the snippet of a row
\* the window around idx: content[max(0, idx - 50) : min(len, idx + 100)]
SnippetWindow(content, idx) ==
    Ellipsis
        \o Slice(content,
                 IF idx - 50 > 0 THEN idx - 50 ELSE 0,
                 IF Len(content) < idx + 100 THEN Len(content) ELSE idx + 100)
        \o Ellipsis

\* found: the positions of the words with find(word) > 0
SnippetFor(content, words, found) ==
    IF found /= {}
    THEN SnippetWindow(content,
                       Find(Lower(content),
                            words[CHOOSE k \in found : \A j \in found : k <= j]))
    ELSE Take(content, 150) \o Ellipsis

FallbackSnippet(content, words) ==
    SnippetFor(content, words,
               {k \in 1..Len(words) : Find(Lower(content), words[k]) > 0})

FallbackResult(row, words) ==
    [article |-> [row EXCEPT !.content = Take(row.content, 500) \o Ellipsis],
     score   |-> 1,
     snippet |-> FallbackSnippet(row.content, words)]

\* the statement without any LIKE condition ("WHERE  LIMIT n") is rejected
\* by the SQL parser: sqlite3.OperationalError leaves the method
FallbackResults(rows, words) ==
    [i \in 1..Len(rows) |-> FallbackResult(rows[i], words)]

FallbackWordsSearch(words, limit, category) ==
    IF words = <<>>
    THEN [raised |-> TRUE, error |-> "OperationalError", value |-> <<>>]
    ELSE [raised |-> FALSE, error |-> NoneVal,
          value  |-> FallbackResults(
                        Take(SelectSeq(articles,
                                       LAMBDA row : FallbackWhere(row, words, category)),
                             limit),
                        words)]

fallback_search(query, limit, category) ==
    FallbackWordsSearch(FallbackWords(query), limit, category)

\* ------------------------------------------------------------------------
\* KnowledgeBase.search
\* ------------------------------------------------------------------------

\* the rows of articles_fts JOIN articles that the WHERE clause keeps
RankedRows(parsed, category) ==
    {i \in 1..Len(articles) :
        /\ articles[i].id \in DOMAIN articles_fts
        /\ Fts5Match(parsed, articles_fts[articles[i].id])
        /\ (category /= NoCategory => articles[i].category = category)}

\* bm25 of every row the WHERE clause keeps
RankedScores(parsed, category) ==
    [i \in RankedRows(parsed, category) |-> bm25(parsed, articles_fts[articles[i].id])]

\* ORDER BY score: ascending bm25, rows of equal score in rowid order
RECURSIVE OrderByScore(_, _)
OrderByScore(rowset, score) ==
    IF rowset = {} THEN <<>>
    ELSE LET first == CHOOSE i \in rowset :
                        \A j \in rowset :
                            score[i] < score[j] \/ (score[i] = score[j] /\ i <= j)
         IN  <<first>> \o OrderByScore(rowset \ {first}, score)

\* the engine's signed rank handed to the caller as it is
Abs_Signed(x) == x

Abs(x) == IF x < 0 THEN 0 - x ELSE x

\* snippet(articles_fts, 1, ...) is an excerpt of column 1, the content
RankedResult(i, score) ==
    [article |-> articles[i],
     score   |-> Abs(score),
     snippet |-> articles_fts[articles[i].id].content]

\* the loop over the rows fetched: one SearchResult per row
RankedResults(rows, score) ==
    [k \in 1..Len(rows) |-> RankedResult(rows[k], score[rows[k]])]

\* ORDER BY score LIMIT ?
RankedFetch(score, limit) ==
    RankedResults(Take(OrderByScore(DOMAIN score, score), limit), score)

\* the statement is run with the prepared query as parsed by the engine; a
\* query the engine rejects raises sqlite3.OperationalError, which search
\* answers with the LIKE fallback
SearchParsed(query, limit, category, parsed) ==
    IF ~parsed.ok
    THEN fallback_search(query, limit, category)
    ELSE [raised |-> FALSE, error |-> NoneVal,
          value  |-> RankedFetch(RankedScores(parsed, category), limit)]

search(query, limit, category) ==
    SearchParsed(query, limit, category, Fts5Parse(prepare_query(query)))

Search ==
    /\ Idle
    /\ \E query \in Queries, limit \in Limits, category \in Categories :
      \E r \in {search(query, limit, category)} :
        /\ ret' = [op |-> "search",
                   args |-> [query |-> query, limit |-> limit, category |-> category],
                   raised |-> r.raised, error |-> r.error, value |-> r.value]
        /\ UNCHANGED <<store, llm, gen, startup>>

\* the caller has taken the result of its call and is free to call again
Return ==
    /\ ret.op /= "none"
    /\ ret' = [op |-> "none"]
    /\ UNCHANGED <<store, llm, gen, startup>>

\* ------------------------------------------------------------------------
\* GeminiLLM: canned answers
\* ------------------------------------------------------------------------

\* OFFLINE_RESPONSES[key]: the canned text, one symbol per literal
OFFLINE_RESPONSES(key) == << "<OFFLINE_RESPONSES." \o key \o ">" >>

greetings ==
    { <<"h", "e", "l", "l", "o">>,
      <<"h", "i">>,
      <<"h", "e", "y">>,
      <<"U+179F", "U+17BD", "U+179F", "U+17D2", "U+178F", "U+17B8">>,
      <<"g", "o", "o", "d", " ", "m", "o", "r", "n", "i", "n", "g">>,
      <<"g", "o", "o", "d", " ", "a", "f", "t", "e", "r", "n", "o", "o", "n">> }

help_phrases ==
    { <<"h", "e", "l", "p">>,
      <<"?">>,
      <<"w", "h", "a", "t", " ", "c", "a", "n", " ", "y", "o", "u", " ", "d", "o">> }

\* topic_keywords, in the order of the dict literal
topic_keywords ==
    << [topic |-> "install", keywords |->
          { <<"i", "n", "s", "t", "a", "l", "l">>,
            <<"a", "d", "d">>,
            <<"g", "e", "t">>,
            <<"s", "e", "t", "u", "p">>,
            <<"U+178A", "U+17C6", "U+17A1", "U+17BE", "U+1784">> }],
       [topic |-> "remove", keywords |->
          { <<"r", "e", "m", "o", "v", "e">>,
            <<"u", "n", "i", "n", "s", "t", "a", "l", "l">>,
            <<"d", "e", "l", "e", "t", "e">>,
            <<"U+179B", "U+17BB", "U+1794">> }],
       [topic |-> "update", keywords |->
          { <<"u", "p", "d", "a", "t", "e">>,
            <<"u", "p", "g", "r", "a", "d", "e">>,
            <<"U+1792", "U+17D2", "U+179C", "U+17BE", "U+1794", "U+1785", "U+17D2", "U+1785", "U+17BB", "U+1794", "U+17D2", "U+1794", "U+1793", "U+17D2", "U+1793", "U+1797", "U+17B6", "U+1796">> }],
       [topic |-> "snapshot", keywords |->
          { <<"s", "n", "a", "p", "s", "h", "o", "t">>,
            <<"b", "a", "c", "k", "u", "p">> }],
       [topic |-> "rollback", keywords |->
          { <<"r", "o", "l", "l", "b", "a", "c", "k">>,
            <<"r", "e", "s", "t", "o", "r", "e">>,
            <<"r", "e", "v", "e", "r", "t">> }],
       [topic |-> "disk", keywords |->
          { <<"d", "i", "s", "k">>,
            <<"s", "p", "a", "c", "e">>,
            <<"s", "t", "o", "r", "a", "g", "e">>,
            <<"d", "f">> }],
       [topic |-> "memory", keywords |->
          { <<"m", "e", "m", "o", "r", "y">>,
            <<"r", "a", "m">>,
            <<"f", "r", "e", "e">> }],
       [topic |-> "windows", keywords |->
          { <<"w", "i", "n", "d", "o", "w", "s">>,
            <<"c", "m", "d">>,
            <<"p", "o", "w", "e", "r", "s", "h", "e", "l", "l">>,
            <<"w", "i", "n", "g", "e", "t">> }],
       [topic |-> "macos", keywords |->
          { <<"m", "a", "c", "o", "s">>,
            <<"m", "a", "c">>,
            <<"h", "o", "m", "e", "b", "r", "e", "w">>,
            <<"b", "r", "e", "w">> }],
       [topic |-> "python", keywords |->
          { <<"p", "y", "t", "h", "o", "n">>,
            <<"p", "i", "p">>,
            <<"v", "e", "n", "v">> }],
       [topic |-> "git", keywords |->
          { <<"g", "i", "t">>,
            <<"c", "l", "o", "n", "e">>,
            <<"c", "o", "m", "m", "i", "t">>,
            <<"p", "u", "s", "h">> }] >>

\* the position of the last topic one of whose keywords occurs, 0 if none
FirstTopic_Last(prompt_lower) ==
    LET hits == {k \in 1..Len(topic_keywords) :
                    \E kw \in topic_keywords[k].keywords : Contains(prompt_lower, kw)}
    IN  IF hits = {} THEN 0 ELSE CHOOSE k \in hits : \A j \in hits : k >= j

\* the position of the first topic one of whose keywords occurs, 0 if none
FirstTopic(prompt_lower) ==
    LET hits == {k \in 1..Len(topic_keywords) :
                    \E kw \in topic_keywords[k].keywords : Contains(prompt_lower, kw)}
    IN  IF hits = {} THEN 0 ELSE CHOOSE k \in hits : \A j \in hits : k <= j

\* return OFFLINE_RESPONSES.get(topic) for the topic at position k
TopicResponse(k) ==
    IF k /= 0 THEN OFFLINE_RESPONSES(topic_keywords[k].topic) ELSE <<>>

\* GeminiLLM._get_offline_response: a canned text, or None; None is written
\* as the empty text, its callers test the result for truth only
get_offline_response(prompt) ==
    LET prompt_lower == Lower(prompt) IN
    IF \E g \in greetings : Contains(prompt_lower, g)
    THEN OFFLINE_RESPONSES("greeting")
    ELSE IF Strip(prompt_lower) \in help_phrases
    THEN OFFLINE_RESPONSES("help")
    ELSE TopicResponse(FirstTopic(prompt_lower))

\* ------------------------------------------------------------------------
\* KnowledgeBase.build_context
\* ------------------------------------------------------------------------

ContextHeader ==
    <<"#", "#", " ", "R", "e", "l", "e", "v", "a", "n", "t", " ", "D", "o", "c", "u", "m", "e", "n", "t", "a", "t", "i", "o", "n", "\n">>

\* f"\n### {title}" [+ " (ArchWiki)"] + "\n"
EntryHeading(article) ==
    <<"\n", "#", "#", "#", " ">> \o article.title
        \o (IF article.source = "archwiki"
            THEN <<" ", "(", "A", "r", "c", "h", "W", "i", "k", "i", ")">>
            ELSE <<>>)
        \o <<"\n">>

\* a result whose content would have to be cut is left out and the loop
\* goes on to the next result
RECURSIVE ContextEntries_SkipCut(_, _, _)
ContextEntries_SkipCut(results, char_count, max_chars) ==
    IF results = <<>> THEN <<>>
    ELSE LET article   == Head(results).article
             heading   == EntryHeading(article)
             remaining == max_chars - char_count - Len(heading)
             entry     == heading \o article.content \o <<"\n">>
         IN  IF remaining <= 0 THEN <<>>
             ELSE IF Len(article.content) > remaining
             THEN ContextEntries_SkipCut(Tail(results), char_count, max_chars)
             ELSE IF char_count + Len(entry) >= max_chars THEN <<entry>>
             ELSE <<entry>> \o ContextEntries_SkipCut(Tail(results), char_count + Len(entry),
                                                      max_chars)

\* the for loop over the results: the entries appended to context_parts
RECURSIVE ContextEntries(_, _, _)
ContextEntries(results, char_count, max_chars) ==
    IF results = <<>> THEN <<>>
    ELSE LET article   == Head(results).article
             heading   == EntryHeading(article)
             remaining == max_chars - char_count - Len(heading)
             content   == IF Len(article.content) > remaining
                          THEN Take(article.content, remaining) \o Ellipsis
                          ELSE article.content
             entry     == heading \o content \o <<"\n">>
         IN  IF remaining <= 0 THEN <<>>
             ELSE IF char_count + Len(entry) >= max_chars THEN <<entry>>
             ELSE <<entry>> \o ContextEntries(Tail(results), char_count + Len(entry), max_chars)

\* return "\n".join(context_parts), results
ContextReturn(context_parts, results) ==
    [raised |-> FALSE, error |-> NoneVal,
     context |-> Join(<<"\n">>, context_parts),
     context_parts |-> context_parts,
     results |-> results]

\* r: what self.search(query, limit=5) gave; its exception is not caught
ContextOf(r, max_tokens) ==
    IF r.raised
    THEN [raised |-> TRUE, error |-> r.error, context |-> <<>>,
          context_parts |-> <<>>, results |-> <<>>]
    ELSE IF r.value = <<>>
    THEN [raised |-> FALSE, error |-> NoneVal, context |-> <<>>,
          context_parts |-> <<>>, results |-> <<>>]
    ELSE ContextReturn(<<ContextHeader>> \o ContextEntries(r.value, 0, max_tokens * 4),
                       r.value)

build_context(query, max_tokens) == ContextOf(search(query, 5, NoCategory), max_tokens)

\* token budgets of a call: too small for one entry, the budget of the
\* spec's example, and the budget _search_knowledge asks for
MaxTokensInputs == {7, 10, 2000}

\* a call of build_context; context_parts is the list the call joined
BuildContext ==
    /\ Idle
    /\ \E query \in Queries, max_tokens \in MaxTokensInputs :
        \E r \in {build_context(query, max_tokens)} :
          /\ ret' = [op |-> "build_context",
                     args |-> [query |-> query, max_tokens |-> max_tokens],
                     raised |-> r.raised, error |-> r.error,
                     value |-> [context |-> r.context, results |-> r.results],
                     context_parts |-> r.context_parts]
          /\ UNCHANGED <<store, llm, gen, startup>>

\* ------------------------------------------------------------------------
\* GeminiLLM
\* ------------------------------------------------------------------------

\* max_tokens of the build_context call in _search_knowledge
KnowledgeMaxTokens == 2000

\* _search_knowledge without its try/except: the exception leaves the method
Uncaught(r) ==
    [raised |-> r.raised, error |-> r.error, logged |-> NoneVal,
     context |-> r.context,
     titles  |-> [i \in 1..Len(r.results) |-> r.results[i].article.title]]

search_knowledge_NoCatch(kb, query) ==
    IF kb = NoneVal
    THEN [raised |-> FALSE, error |-> NoneVal, logged |-> NoneVal,
          context |-> <<>>, titles |-> <<>>]
    ELSE Uncaught(build_context(query, KnowledgeMaxTokens))

\* GeminiLLM._search_knowledge: (context, titles); an exception of the store
\* is caught, logged and answered with ("", []), so nothing is raised
\* the try/except around build_context; r is what build_context gave
ContextOrEmpty(r) ==
    IF r.raised
    THEN [raised |-> FALSE, error |-> NoneVal, logged |-> r.error,
          context |-> <<>>, titles |-> <<>>]
    ELSE [raised |-> FALSE, error |-> NoneVal, logged |-> NoneVal,
          context |-> r.context,
          titles  |-> [i \in 1..Len(r.results) |-> r.results[i].article.title]]

search_knowledge(kb, query) ==
    IF kb = NoneVal
    THEN [raised |-> FALSE, error |-> NoneVal, logged |-> NoneVal,
          context |-> <<>>, titles |-> <<>>]
    ELSE ContextOrEmpty(build_context(query, KnowledgeMaxTokens))

\* AIResponse(text, confidence, source, is_offline, knowledge_used)
AIResponse(text, confidence, source, is_offline, knowledge_used) ==
    [text |-> text, confidence |-> confidence, source |-> source,
     is_offline |-> is_offline, knowledge_used |-> knowledge_used]

\* AIResponse built without knowledge_used: __post_init__ makes it []
AIResponseNoTitles(text, confidence, source, is_offline) ==
    AIResponse(text, confidence, source, is_offline, <<>>)

OfflineNote == << "<\\n---\\n*Answer from local knowledge base (offline mode)*>" >>

\* _generate_offline_from_knowledge giving up (0.0, "none") when no canned
\* topic matches
generate_offline_from_knowledge_GiveUp(query, context, titles) ==
    IF context = <<>>
    THEN LET offline_resp == get_offline_response(query) IN
         IF offline_resp /= <<>>
         THEN AIResponseNoTitles(offline_resp, 60, "offline", TRUE)
         ELSE AIResponseNoTitles(OFFLINE_RESPONSES("offline"), 0, "none", TRUE)
    ELSE AIResponse(
            Join(<<"\n">>,
                 << << "<Based on my knowledge base (>" >>
                       \o Join(<<",", " ">>, Take(titles, 3)) \o <<")", ":", "\n">>,
                    context,
                    OfflineNote >>),
            75, "knowledge", TRUE, titles)

\* GeminiLLM._generate_offline_from_knowledge; confidence in hundredths
generate_offline_from_knowledge(query, context, titles) ==
    IF context = <<>>
    THEN LET offline_resp == get_offline_response(query) IN
         IF offline_resp /= <<>>
         THEN AIResponseNoTitles(offline_resp, 60, "offline", TRUE)
         ELSE AIResponseNoTitles(OFFLINE_RESPONSES("offline"), 30, "offline", TRUE)
    ELSE AIResponse(
            Join(<<"\n">>,
                 << << "<Based on my knowledge base (>" >>
                       \o Join(<<",", " ">>, Take(titles, 3)) \o <<")", ":", "\n">>,
                    context,
                    OfflineNote >>),
            75, "knowledge", TRUE, titles)

\* the f-string that wraps the question and the context
EnhancedPrompt(prompt, knowledge_context) ==
    IF knowledge_context /= <<>>
    THEN << "<User Question: >" >> \o prompt \o <<"\n", "\n">> \o knowledge_context
            \o <<"\n", "\n">> \o << "<Please answer the user's question. ...>" >>
    ELSE prompt

\* the source tag chosen without looking at the titles
RemoteResponse_AlwaysKnowledge(text, knowledge_titles) ==
    AIResponse(text, 95, "gemini+knowledge", FALSE, knowledge_titles)

\* the response built when generate_content has returned
RemoteResponse(text, knowledge_titles) ==
    AIResponse(text, 95,
               IF knowledge_titles /= <<>> THEN "gemini+knowledge" ELSE "gemini",
               FALSE, knowledge_titles)

\* the except branch without its knowledge fallback
FailureResponse_SkipKnowledge(prompt, knowledge_context, knowledge_titles, e) ==
    LET offline_response == get_offline_response(prompt) IN
    IF offline_response /= <<>>
    THEN AIResponseNoTitles(
             offline_response \o << "<\\n\\n*[Offline response - API unavailable]*>" >>,
             50, "offline", TRUE)
    ELSE AIResponseNoTitles(
             << "<I couldn't connect to the AI service. Error: >", e,
                "<\\n\\nPlease check your internet connection and API key.>" >>,
             0, "none", TRUE)

\* the except branch answering from the canned table as the offline path does
FailureResponse_SameAsOffline(prompt, knowledge_context, knowledge_titles, e) ==
    IF knowledge_context /= <<>>
    THEN generate_offline_from_knowledge(prompt, knowledge_context, knowledge_titles)
    ELSE LET offline_response == get_offline_response(prompt) IN
         IF offline_response /= <<>>
         THEN AIResponseNoTitles(offline_response, 60, "offline", TRUE)
         ELSE AIResponseNoTitles(
                  << "<I couldn't connect to the AI service. Error: >", e,
                     "<\\n\\nPlease check your internet connection and API key.>" >>,
                  0, "none", TRUE)

\* the except branch giving up before it looks at the canned table
FailureResponse_GiveUpFirst(prompt, knowledge_context, knowledge_titles, e) ==
    IF knowledge_context /= <<>>
    THEN generate_offline_from_knowledge(prompt, knowledge_context, knowledge_titles)
    ELSE AIResponseNoTitles(
             << "<I couldn't connect to the AI service. Error: >", e,
                "<\\n\\nPlease check your internet connection and API key.>" >>,
             0, "none", TRUE)

\* the except branch leaving is_offline at its default (False) for a canned answer
FailureResponse_DefaultFlag(prompt, knowledge_context, knowledge_titles, e) ==
    IF knowledge_context /= <<>>
    THEN generate_offline_from_knowledge(prompt, knowledge_context, knowledge_titles)
    ELSE LET offline_response == get_offline_response(prompt) IN
         IF offline_response /= <<>>
         THEN AIResponseNoTitles(
                  offline_response
                      \o << "<\\n\\n*[Offline response - API unavailable]*>" >>,
                  50, "offline", FALSE)
         ELSE AIResponseNoTitles(
                  << "<I couldn't connect to the AI service. Error: >", e,
                     "<\\n\\nPlease check your internet connection and API key.>" >>,
                  0, "none", TRUE)

\* the except branch of generate: e is the exception caught
FailureResponse(prompt, knowledge_context, knowledge_titles, e) ==
    IF knowledge_context /= <<>>
    THEN generate_offline_from_knowledge(prompt, knowledge_context, knowledge_titles)
    ELSE LET offline_response == get_offline_response(prompt) IN
         IF offline_response /= <<>>
         THEN AIResponseNoTitles(
                  offline_response
                      \o << "<\\n\\n*[Offline response - API unavailable]*>" >>,
                  50, "offline", TRUE)
         ELSE AIResponseNoTitles(
                  << "<I couldn't connect to the AI service. Error: >", e,
                     "<\\n\\nPlease check your internet connection and API key.>" >>,
                  0, "none", TRUE)

\* ------------------------------------------------------------------------
\* GeminiLLM.generate, step by step
\* ------------------------------------------------------------------------

\* property is_offline
is_offline == llm.is_offline_flag \/ llm.model = NoneVal

Prompts == Queries

\* what model.generate_content(...).text can give back
RemoteTexts == { << "<response.text>" >> }

\* what the remote call can raise: transport failure, timeout, a response
\* without text
RemoteErrors == {"DeadlineExceeded", "ValueError"}

IdleFrame == [pc |-> "idle"]

\* generate(prompt, use_knowledge) is entered: lines 497-498
GenerateCall ==
    \E prompt \in Prompts, use_knowledge \in BOOLEAN :
        /\ Idle
        /\ gen' = [pc |-> "step1", prompt |-> prompt, use_knowledge |-> use_knowledge,
                   knowledge_context |-> <<>>, knowledge_titles |-> <<>>,
                   knowledge_error |-> NoneVal,
                   enhanced_prompt |-> <<>>, log |-> <<>>]
        /\ UNCHANGED <<store, llm, ret, startup>>

\* a failed remote call switches the object to offline mode for good
GenerateReturn_Sticky(response, remote) ==
    /\ ret' = [op |-> "generate",
               args |-> [prompt |-> gen.prompt, use_knowledge |-> gen.use_knowledge],
               raised |-> FALSE, error |-> NoneVal, value |-> response,
               remote |-> remote,
               knowledge_context |-> gen.knowledge_context,
               knowledge_titles |-> gen.knowledge_titles,
               knowledge_error |-> gen.knowledge_error,
               enhanced_prompt |-> gen.enhanced_prompt,
               log |-> gen.log]
    /\ gen' = IdleFrame
    /\ llm' = [llm EXCEPT !.is_offline_flag = @ \/ remote = "failed"]
    /\ UNCHANGED <<store, startup>>

\* generate returns response to its caller; remote tells how the remote call
\* went (not_attempted, ok, failed)
GenerateReturn(response, remote) ==
    /\ ret' = [op |-> "generate",
               args |-> [prompt |-> gen.prompt, use_knowledge |-> gen.use_knowledge],
               raised |-> FALSE, error |-> NoneVal, value |-> response,
               remote |-> remote,
               knowledge_context |-> gen.knowledge_context,
               knowledge_titles |-> gen.knowledge_titles,
               knowledge_error |-> gen.knowledge_error,
               enhanced_prompt |-> gen.enhanced_prompt,
               log |-> gen.log]
    /\ gen' = IdleFrame
    /\ UNCHANGED <<store, llm, startup>>

\* an exception that no handler of generate catches leaves the call
GenerateRaise(error, log) ==
    /\ ret' = [op |-> "generate",
               args |-> [prompt |-> gen.prompt, use_knowledge |-> gen.use_knowledge],
               raised |-> TRUE, error |-> error, value |-> NoneVal,
               remote |-> "not_attempted",
               knowledge_context |-> gen.knowledge_context,
               knowledge_titles |-> gen.knowledge_titles,
               knowledge_error |-> gen.knowledge_error,
               enhanced_prompt |-> gen.enhanced_prompt,
               log |-> log]
    /\ gen' = IdleFrame
    /\ UNCHANGED <<store, llm, startup>>

\* Step 1 run only when the object is offline
GenerateStep1_OnlyOffline ==
    /\ gen.pc = "step1"
    /\ IF gen.use_knowledge /\ llm.kb /= NoneVal /\ is_offline
       THEN \E k \in {search_knowledge(llm.kb, gen.prompt)} :
            \E log \in {Append(gen.log, [call |-> "build_context",
                                         max_tokens |-> KnowledgeMaxTokens])} :
                IF k.raised
                THEN GenerateRaise(k.error, log)
                ELSE /\ gen' = [gen EXCEPT !.pc = "step2",
                                           !.knowledge_context = k.context,
                                           !.knowledge_titles = k.titles,
                                           !.knowledge_error = k.logged,
                                           !.log = log]
                     /\ UNCHANGED <<store, llm, ret, startup>>
       ELSE /\ gen' = [gen EXCEPT !.pc = "step2"]
            /\ UNCHANGED <<store, llm, ret, startup>>

\* Step 1: search the local knowledge base (always, for context)
GenerateStep1 ==
    /\ gen.pc = "step1"
    /\ IF gen.use_knowledge /\ llm.kb /= NoneVal
       THEN \E k \in {search_knowledge(llm.kb, gen.prompt)} :
            \E log \in {Append(gen.log, [call |-> "build_context",
                                         max_tokens |-> KnowledgeMaxTokens])} :
                IF k.raised
                THEN GenerateRaise(k.error, log)
                ELSE /\ gen' = [gen EXCEPT !.pc = "step2",
                                           !.knowledge_context = k.context,
                                           !.knowledge_titles = k.titles,
                                           !.knowledge_error = k.logged,
                                           !.log = log]
                     /\ UNCHANGED <<store, llm, ret, startup>>
       ELSE /\ gen' = [gen EXCEPT !.pc = "step2"]
            /\ UNCHANGED <<store, llm, ret, startup>>

\* Step 2: offline, answer from knowledge or the canned table
GenerateOffline ==
    /\ gen.pc = "step2"
    /\ is_offline
    /\ GenerateReturn(
           generate_offline_from_knowledge(gen.prompt, gen.knowledge_context,
                                           gen.knowledge_titles),
           "not_attempted")

\* Step 3: online, model.generate_content(enhanced_prompt) is called
GenerateRemoteCall ==
    /\ gen.pc = "step2"
    /\ ~is_offline
    /\ gen' = [gen EXCEPT !.pc = "remote",
                          !.enhanced_prompt = EnhancedPrompt(gen.prompt, gen.knowledge_context),
                          !.log = Append(@, [call |-> "generate_content"])]
    /\ UNCHANGED <<store, llm, ret, startup>>

\* the remote service answers
RemoteSuccess ==
    \E text \in RemoteTexts :
        /\ gen.pc = "remote"
        /\ GenerateReturn(RemoteResponse(text, gen.knowledge_titles), "ok")

\* the remote call raises
RemoteFailure ==
    \E e \in RemoteErrors :
        /\ gen.pc = "remote"
        /\ GenerateReturn(
               FailureResponse(gen.prompt, gen.knowledge_context, gen.knowledge_titles, e),
               "failed")

\* GeminiLLM.__init__: the objects construction can leave behind
LLMStates ==
    { [model |-> m, is_offline_flag |-> (m = NoneVal), kb |-> kb] :
        m \in {NoneVal, "gemini-1.5-flash"}, kb \in {NoneVal, "KnowledgeBase"} }

\* ------------------------------------------------------------------------
\* Regular expressions (module re, as intent.py uses it): a pattern is a
\* tree; matching backtracks in Python's order of preference (an optional
\* part is tried before its absence, a repetition takes the longest run
\* first, alternatives are tried left to right)
\* ------------------------------------------------------------------------

Lit(chars)  == [t |-> "lit", s |-> chars]
Cat(xs)     == [t |-> "cat", xs |-> xs]
Alt(xs)     == [t |-> "alt", xs |-> xs]
Opt(x)      == [t |-> "opt", x |-> x]
Grp(n, x)   == [t |-> "grp", n |-> n, x |-> x]
Rep(cls, m) == [t |-> "rep", cls |-> cls, min |-> m]
Bol         == [t |-> "bol"]
Eol         == [t |-> "eol"]

\* \s+ , \s* and .+
Ws    == Rep("space", 1)
Ws0   == Rep("space", 0)
Any1  == Rep("any", 1)

\* a character class of the patterns: \s, and . (anything but a newline)
InClass(cls, c) == IF cls = "space" THEN IsSpace(c) ELSE c /= "\n"

\* re.IGNORECASE: letters compare without case
LitAt(s, chars, i) ==
    /\ i + Len(chars) - 1 <= Len(s)
    /\ \A k \in 1..Len(chars) : LowerChar(s[i + k - 1]) = LowerChar(chars[k])

\* the length of the longest run of characters of the class from position i
RunLen(s, cls, i) ==
    IF \E j \in i..Len(s) : ~InClass(cls, s[j])
    THEN (CHOOSE j \in i..Len(s) :
              /\ ~InClass(cls, s[j])
              /\ \A k \in i..(j - 1) : InClass(cls, s[k])) - i
    ELSE Len(s) - i + 1

\* no group has taken part in the match
NoGroups(n) == [k \in 1..n |-> <<>>]

\* a repetition of a class over a run of run characters: the longest first
RepWays(run, min, i, caps) ==
    [k \in 1..(run - min + 1) |-> [i |-> i + run - k + 1, caps |-> caps]]

\* group n has captured from i to the end of each way
Captured(ways, n, i) ==
    [k \in 1..Len(ways) |->
        [i |-> ways[k].i, caps |-> [ways[k].caps EXCEPT ![n] = <<i, ways[k].i>>]]]

\* Matches(re, s, i, caps): the ways re can match s from position i, in the
\* order the backtracking matcher tries them; each way is the position after
\* the match and the groups captured so far (a group is <<first, after>>)
RECURSIVE Matches(_, _, _, _)
RECURSIVE MatchesCat(_, _, _, _, _)
RECURSIVE MatchesCatEach(_, _, _, _, _)
RECURSIVE MatchesAlt(_, _, _, _, _)

MatchesCat(xs, k, s, i, caps) ==
    IF k > Len(xs)
    THEN << [i |-> i, caps |-> caps] >>
    ELSE MatchesCatEach(xs, k, s, Matches(xs[k], s, i, caps), 1)

MatchesCatEach(xs, k, s, ways, j) ==
    IF j > Len(ways)
    THEN <<>>
    ELSE MatchesCat(xs, k + 1, s, ways[j].i, ways[j].caps)
             \o MatchesCatEach(xs, k, s, ways, j + 1)

MatchesAlt(xs, k, s, i, caps) ==
    IF k > Len(xs)
    THEN <<>>
    ELSE Matches(xs[k], s, i, caps) \o MatchesAlt(xs, k + 1, s, i, caps)

Matches(re, s, i, caps) ==
    CASE re.t = "lit" ->
            IF LitAt(s, re.s, i)
            THEN << [i |-> i + Len(re.s), caps |-> caps] >>
            ELSE <<>>
      [] re.t = "rep" -> RepWays(RunLen(s, re.cls, i), re.min, i, caps)
      [] re.t = "cat" -> MatchesCat(re.xs, 1, s, i, caps)
      [] re.t = "alt" -> MatchesAlt(re.xs, 1, s, i, caps)
      [] re.t = "opt" -> Matches(re.x, s, i, caps) \o << [i |-> i, caps |-> caps] >>
      [] re.t = "grp" -> Captured(Matches(re.x, s, i, caps), re.n, i)
      [] re.t = "bol" ->
            IF i = 1 THEN << [i |-> i, caps |-> caps] >> ELSE <<>>
      [] re.t = "eol" ->
            IF i = Len(s) + 1 \/ (i = Len(s) /\ s[i] = "\n")
            THEN << [i |-> i, caps |-> caps] >>
            ELSE <<>>

\* pattern.search(text): the leftmost position where the pattern matches and
\* the way the matcher finds first there
MatchStarts(p, s) ==
    {i \in 1..(Len(s) + 1) : Matches(p.re, s, i, NoGroups(p.groups)) /= <<>>}

MatchFrom(p, s, i) ==
    [found  |-> TRUE,
     start  |-> i,
     end    |-> Head(Matches(p.re, s, i, NoGroups(p.groups))).i,
     groups |-> Head(Matches(p.re, s, i, NoGroups(p.groups))).caps]

re_search(p, s) ==
    IF MatchStarts(p, s) = {}
    THEN [found |-> FALSE]
    ELSE MatchFrom(p, s, CHOOSE i \in MatchStarts(p, s) :
                             \A j \in MatchStarts(p, s) : i <= j)

\* re.sub(pattern, '', s) for a pattern anchored at one end of s: the one
\* match there can be is cut out
CutMatch(s, m) ==
    IF m.found THEN SubSeq(s, 1, m.start - 1) \o SubSeq(s, m.end, Len(s)) ELSE s

re_sub(p, s) == CutMatch(s, re_search(p, s))

\* match.groups()[0] as text; a group that took no part is None
GroupIsNone(groups, n) == groups[n] = <<>>

GroupText(s, groups, n) == SubSeq(s, groups[n][1], groups[n][2] - 1)

\* ------------------------------------------------------------------------
\* IntentClassifier.PATTERNS
\* ------------------------------------------------------------------------

P_INSTALL_PACKAGE ==
    <<
      \* line 68: r"(?:help\s+me\s+)?install\s+(.+)"
      [groups |-> 1, re |-> Cat(<<Opt(Cat(<<Lit(<<"h", "e", "l", "p">>), Ws, Lit(<<"m",
          "e">>), Ws>>)), Lit(<<"i", "n", "s", "t", "a", "l", "l">>), Ws, Grp(1, Any1)>>)],
      \* line 69: r"(?:can\s+you\s+)?(?:please\s+)?install\s+(.+)"
      [groups |-> 1, re |-> Cat(<<Opt(Cat(<<Lit(<<"c", "a", "n">>), Ws, Lit(<<"y", "o",
          "u">>), Ws>>)), Opt(Cat(<<Lit(<<"p", "l", "e", "a", "s", "e">>), Ws>>)),
          Lit(<<"i", "n", "s", "t", "a", "l", "l">>), Ws, Grp(1, Any1)>>)],
      \* line 70: r"(?:i\s+want\s+to\s+)?install\s+(.+)"
      [groups |-> 1, re |-> Cat(<<Opt(Cat(<<Lit(<<"i">>), Ws, Lit(<<"w", "a", "n", "t">>),
          Ws, Lit(<<"t", "o">>), Ws>>)), Lit(<<"i", "n", "s", "t", "a", "l", "l">>), Ws,
          Grp(1, Any1)>>)],
      \* line 71: r"(?:i\s+need\s+)?(.+)\s+installed"
      [groups |-> 1, re |-> Cat(<<Opt(Cat(<<Lit(<<"i">>), Ws, Lit(<<"n", "e", "e", "d">>),
          Ws>>)), Grp(1, Any1), Ws, Lit(<<"i", "n", "s", "t", "a", "l", "l", "e", "d">>)>>)],
      \* line 72: r"add\s+(.+)"
      [groups |-> 1, re |-> Cat(<<Lit(<<"a", "d", "d">>), Ws, Grp(1, Any1)>>)],
      \* line 73: r"get\s+(?:me\s+)?(.+)"
      [groups |-> 1, re |-> Cat(<<Lit(<<"g", "e", "t">>), Ws, Opt(Cat(<<Lit(<<"m", "e">>),
          Ws>>)), Grp(1, Any1)>>)],
      \* line 74: r"setup\s+(.+)"
      [groups |-> 1, re |-> Cat(<<Lit(<<"s", "e", "t", "u", "p">>), Ws, Grp(1, Any1)>>)],
      \* line 75: r"\u178a\u17c6\u17a1\u17be\u1784\s+(.+)"
      [groups |-> 1, re |-> Cat(<<Lit(<<"U+178A", "U+17C6", "U+17A1", "U+17BE",
          "U+1784">>), Ws, Grp(1, Any1)>>)],
      \* line 76: r"\u1787\u17bd\u1799\s*\u178a\u17c6\u17a1\u17be\u1784\s+(.+)"
      [groups |-> 1, re |-> Cat(<<Lit(<<"U+1787", "U+17BD", "U+1799">>), Ws0,
          Lit(<<"U+178A", "U+17C6", "U+17A1", "U+17BE", "U+1784">>), Ws, Grp(1, Any1)>>)]
    >>

P_REMOVE_PACKAGE ==
    <<
      \* line 79: r"(?:help\s+me\s+)?remove\s+(.+)"
      [groups |-> 1, re |-> Cat(<<Opt(Cat(<<Lit(<<"h", "e", "l", "p">>), Ws, Lit(<<"m",
          "e">>), Ws>>)), Lit(<<"r", "e", "m", "o", "v", "e">>), Ws, Grp(1, Any1)>>)],
      \* line 80: r"(?:can\s+you\s+)?(?:please\s+)?(?:remove|uninstall|delete)\s+(.+)"
      [groups |-> 1, re |-> Cat(<<Opt(Cat(<<Lit(<<"c", "a", "n">>), Ws, Lit(<<"y", "o",
          "u">>), Ws>>)), Opt(Cat(<<Lit(<<"p", "l", "e", "a", "s", "e">>), Ws>>)),
          Alt(<<Lit(<<"r", "e", "m", "o", "v", "e">>), Lit(<<"u", "n", "i", "n", "s", "t",
          "a", "l", "l">>), Lit(<<"d", "e", "l", "e", "t", "e">>)>>), Ws, Grp(1, Any1)>>)],
      \* line 81: r"(?:i\s+want\s+to\s+)?(?:remove|uninstall|delete)\s+(.+)"
      [groups |-> 1, re |-> Cat(<<Opt(Cat(<<Lit(<<"i">>), Ws, Lit(<<"w", "a", "n", "t">>),
          Ws, Lit(<<"t", "o">>), Ws>>)), Alt(<<Lit(<<"r", "e", "m", "o", "v", "e">>),
          Lit(<<"u", "n", "i", "n", "s", "t", "a", "l", "l">>), Lit(<<"d", "e", "l", "e",
          "t", "e">>)>>), Ws, Grp(1, Any1)>>)],
      \* line 82: r"get\s+rid\s+of\s+(.+)"
      [groups |-> 1, re |-> Cat(<<Lit(<<"g", "e", "t">>), Ws, Lit(<<"r", "i", "d">>), Ws,
          Lit(<<"o", "f">>), Ws, Grp(1, Any1)>>)],
      \* line 83: r"\u179b\u17bb\u1794\s+(.+)"
      [groups |-> 1, re |-> Cat(<<Lit(<<"U+179B", "U+17BB", "U+1794">>), Ws, Grp(1,
          Any1)>>)]
    >>

P_UPDATE_SYSTEM ==
    <<
      \* line 86: r"(?:help\s+me\s+)?update(?:\s+(?:my\s+)?system)?"
      [groups |-> 0, re |-> Cat(<<Opt(Cat(<<Lit(<<"h", "e", "l", "p">>), Ws, Lit(<<"m",
          "e">>), Ws>>)), Lit(<<"u", "p", "d", "a", "t", "e">>), Opt(Cat(<<Ws,
          Opt(Cat(<<Lit(<<"m", "y">>), Ws>>)), Lit(<<"s", "y", "s", "t", "e", "m">>)>>))>>)],
      \* line 87: r"(?:can\s+you\s+)?(?:please\s+)?update(?:\s+everything)?"
      [groups |-> 0, re |-> Cat(<<Opt(Cat(<<Lit(<<"c", "a", "n">>), Ws, Lit(<<"y", "o",
          "u">>), Ws>>)), Opt(Cat(<<Lit(<<"p", "l", "e", "a", "s", "e">>), Ws>>)),
          Lit(<<"u", "p", "d", "a", "t", "e">>), Opt(Cat(<<Ws, Lit(<<"e", "v", "e", "r",
          "y", "t", "h", "i", "n", "g">>)>>))>>)],
      \* line 88: r"upgrade(?:\s+(?:my\s+)?system)?"
      [groups |-> 0, re |-> Cat(<<Lit(<<"u", "p", "g", "r", "a", "d", "e">>), Opt(Cat(<<Ws,
          Opt(Cat(<<Lit(<<"m", "y">>), Ws>>)), Lit(<<"s", "y", "s", "t", "e", "m">>)>>))>>)],
      \* line 89: r"(?:keep|make)\s+(?:my\s+)?system\s+up\s+to\s+date"
      [groups |-> 0, re |-> Cat(<<Alt(<<Lit(<<"k", "e", "e", "p">>), Lit(<<"m", "a", "k",
          "e">>)>>), Ws, Opt(Cat(<<Lit(<<"m", "y">>), Ws>>)), Lit(<<"s", "y", "s", "t",
          "e", "m">>), Ws, Lit(<<"u", "p">>), Ws, Lit(<<"t", "o">>), Ws, Lit(<<"d", "a",
          "t", "e">>)>>)],
      \* line 90: r"\u1792\u17d2\u179c\u17be\u1794\u1785\u17d2\u1785\u17bb\u1794\u17d2\u1794\u1793\u17d2\u1793\u1797\u17b6\u1796"
      [groups |-> 0, re |-> Lit(<<"U+1792", "U+17D2", "U+179C", "U+17BE", "U+1794",
          "U+1785", "U+17D2", "U+1785", "U+17BB", "U+1794", "U+17D2", "U+1794", "U+1793",
          "U+17D2", "U+1793", "U+1797", "U+17B6", "U+1796">>)]
    >>

P_SEARCH_PACKAGE ==
    <<
      \* line 93: r"(?:help\s+me\s+)?search(?:\s+for)?\s+(.+)"
      [groups |-> 1, re |-> Cat(<<Opt(Cat(<<Lit(<<"h", "e", "l", "p">>), Ws, Lit(<<"m",
          "e">>), Ws>>)), Lit(<<"s", "e", "a", "r", "c", "h">>), Opt(Cat(<<Ws, Lit(<<"f",
          "o", "r">>)>>)), Ws, Grp(1, Any1)>>)],
      \* line 94: r"find\s+(?:a\s+)?package\s+(?:called\s+)?(.+)"
      [groups |-> 1, re |-> Cat(<<Lit(<<"f", "i", "n", "d">>), Ws, Opt(Cat(<<Lit(<<"a">>),
          Ws>>)), Lit(<<"p", "a", "c", "k", "a", "g", "e">>), Ws, Opt(Cat(<<Lit(<<"c", "a",
          "l", "l", "e", "d">>), Ws>>)), Grp(1, Any1)>>)],
      \* line 95: r"(?:is\s+there\s+a\s+)?package\s+(?:for\s+)?(.+)"
      [groups |-> 1, re |-> Cat(<<Opt(Cat(<<Lit(<<"i", "s">>), Ws, Lit(<<"t", "h", "e",
          "r", "e">>), Ws, Lit(<<"a">>), Ws>>)), Lit(<<"p", "a", "c", "k", "a", "g",
          "e">>), Ws, Opt(Cat(<<Lit(<<"f", "o", "r">>), Ws>>)), Grp(1, Any1)>>)],
      \* line 96: r"look\s+(?:up|for)\s+(.+)"
      [groups |-> 1, re |-> Cat(<<Lit(<<"l", "o", "o", "k">>), Ws, Alt(<<Lit(<<"u", "p">>),
          Lit(<<"f", "o", "r">>)>>), Ws, Grp(1, Any1)>>)],
      \* line 97: r"what\s+package\s+(?:provides|has)\s+(.+)"
      [groups |-> 1, re |-> Cat(<<Lit(<<"w", "h", "a", "t">>), Ws, Lit(<<"p", "a", "c",
          "k", "a", "g", "e">>), Ws, Alt(<<Lit(<<"p", "r", "o", "v", "i", "d", "e", "s">>),
          Lit(<<"h", "a", "s">>)>>), Ws, Grp(1, Any1)>>)]
    >>

P_CREATE_SNAPSHOT ==
    <<
      \* line 100: r"(?:help\s+me\s+)?create\s+(?:a\s+)?snapshot"
      [groups |-> 0, re |-> Cat(<<Opt(Cat(<<Lit(<<"h", "e", "l", "p">>), Ws, Lit(<<"m",
          "e">>), Ws>>)), Lit(<<"c", "r", "e", "a", "t", "e">>), Ws,
          Opt(Cat(<<Lit(<<"a">>), Ws>>)), Lit(<<"s", "n", "a", "p", "s", "h", "o",
          "t">>)>>)],
      \* line 101: r"(?:can\s+you\s+)?make\s+(?:a\s+)?snapshot"
      [groups |-> 0, re |-> Cat(<<Opt(Cat(<<Lit(<<"c", "a", "n">>), Ws, Lit(<<"y", "o",
          "u">>), Ws>>)), Lit(<<"m", "a", "k", "e">>), Ws, Opt(Cat(<<Lit(<<"a">>), Ws>>)),
          Lit(<<"s", "n", "a", "p", "s", "h", "o", "t">>)>>)],
      \* line 102: r"(?:please\s+)?backup\s+(?:my\s+)?system"
      [groups |-> 0, re |-> Cat(<<Opt(Cat(<<Lit(<<"p", "l", "e", "a", "s", "e">>), Ws>>)),
          Lit(<<"b", "a", "c", "k", "u", "p">>), Ws, Opt(Cat(<<Lit(<<"m", "y">>), Ws>>)),
          Lit(<<"s", "y", "s", "t", "e", "m">>)>>)],
      \* line 103: r"save\s+(?:the\s+)?(?:current\s+)?system\s+state"
      [groups |-> 0, re |-> Cat(<<Lit(<<"s", "a", "v", "e">>), Ws, Opt(Cat(<<Lit(<<"t",
          "h", "e">>), Ws>>)), Opt(Cat(<<Lit(<<"c", "u", "r", "r", "e", "n", "t">>),
          Ws>>)), Lit(<<"s", "y", "s", "t", "e", "m">>), Ws, Lit(<<"s", "t", "a", "t",
          "e">>)>>)],
      \* line 104: r"take\s+(?:a\s+)?snapshot"
      [groups |-> 0, re |-> Cat(<<Lit(<<"t", "a", "k", "e">>), Ws, Opt(Cat(<<Lit(<<"a">>),
          Ws>>)), Lit(<<"s", "n", "a", "p", "s", "h", "o", "t">>)>>)]
    >>

P_LIST_SNAPSHOTS ==
    <<
      \* line 107: r"(?:help\s+me\s+)?list\s+(?:all\s+)?snapshots"
      [groups |-> 0, re |-> Cat(<<Opt(Cat(<<Lit(<<"h", "e", "l", "p">>), Ws, Lit(<<"m",
          "e">>), Ws>>)), Lit(<<"l", "i", "s", "t">>), Ws, Opt(Cat(<<Lit(<<"a", "l",
          "l">>), Ws>>)), Lit(<<"s", "n", "a", "p", "s", "h", "o", "t", "s">>)>>)],
      \* line 108: r"show\s+(?:me\s+)?(?:all\s+)?snapshots"
      [groups |-> 0, re |-> Cat(<<Lit(<<"s", "h", "o", "w">>), Ws, Opt(Cat(<<Lit(<<"m",
          "e">>), Ws>>)), Opt(Cat(<<Lit(<<"a", "l", "l">>), Ws>>)), Lit(<<"s", "n", "a",
          "p", "s", "h", "o", "t", "s">>)>>)],
      \* line 109: r"what\s+snapshots\s+(?:do\s+i\s+have|exist)"
      [groups |-> 0, re |-> Cat(<<Lit(<<"w", "h", "a", "t">>), Ws, Lit(<<"s", "n", "a",
          "p", "s", "h", "o", "t", "s">>), Ws, Alt(<<Cat(<<Lit(<<"d", "o">>), Ws,
          Lit(<<"i">>), Ws, Lit(<<"h", "a", "v", "e">>)>>), Lit(<<"e", "x", "i", "s",
          "t">>)>>)>>)],
      \* line 110: r"^snapshots$"
      [groups |-> 0, re |-> Cat(<<Bol, Lit(<<"s", "n", "a", "p", "s", "h", "o", "t",
          "s">>), Eol>>)]
    >>

P_ROLLBACK ==
    <<
      \* line 113: r"(?:help\s+me\s+)?rollback(?:\s+to\s+(.+))?"
      [groups |-> 1, re |-> Cat(<<Opt(Cat(<<Lit(<<"h", "e", "l", "p">>), Ws, Lit(<<"m",
          "e">>), Ws>>)), Lit(<<"r", "o", "l", "l", "b", "a", "c", "k">>), Opt(Cat(<<Ws,
          Lit(<<"t", "o">>), Ws, Grp(1, Any1)>>))>>)],
      \* line 114: r"(?:can\s+you\s+)?restore(?:\s+to\s+(.+))?"
      [groups |-> 1, re |-> Cat(<<Opt(Cat(<<Lit(<<"c", "a", "n">>), Ws, Lit(<<"y", "o",
          "u">>), Ws>>)), Lit(<<"r", "e", "s", "t", "o", "r", "e">>), Opt(Cat(<<Ws,
          Lit(<<"t", "o">>), Ws, Grp(1, Any1)>>))>>)],
      \* line 115: r"(?:please\s+)?revert(?:\s+to\s+(.+))?"
      [groups |-> 1, re |-> Cat(<<Opt(Cat(<<Lit(<<"p", "l", "e", "a", "s", "e">>), Ws>>)),
          Lit(<<"r", "e", "v", "e", "r", "t">>), Opt(Cat(<<Ws, Lit(<<"t", "o">>), Ws,
          Grp(1, Any1)>>))>>)],
      \* line 116: r"go\s+back\s+to\s+(?:snapshot\s+)?(.+)"
      [groups |-> 1, re |-> Cat(<<Lit(<<"g", "o">>), Ws, Lit(<<"b", "a", "c", "k">>), Ws,
          Lit(<<"t", "o">>), Ws, Opt(Cat(<<Lit(<<"s", "n", "a", "p", "s", "h", "o", "t">>),
          Ws>>)), Grp(1, Any1)>>)],
      \* line 117: r"undo\s+(?:recent\s+)?changes"
      [groups |-> 0, re |-> Cat(<<Lit(<<"u", "n", "d", "o">>), Ws, Opt(Cat(<<Lit(<<"r",
          "e", "c", "e", "n", "t">>), Ws>>)), Lit(<<"c", "h", "a", "n", "g", "e", "s">>)>>)]
    >>

P_SYSTEM_INFO ==
    <<
      \* line 120: r"system\s+info"
      [groups |-> 0, re |-> Cat(<<Lit(<<"s", "y", "s", "t", "e", "m">>), Ws, Lit(<<"i",
          "n", "f", "o">>)>>)],
      \* line 121: r"about\s+(this\s+)?computer"
      [groups |-> 1, re |-> Cat(<<Lit(<<"a", "b", "o", "u", "t">>), Ws, Opt(Grp(1,
          Cat(<<Lit(<<"t", "h", "i", "s">>), Ws>>))), Lit(<<"c", "o", "m", "p", "u", "t",
          "e", "r">>)>>)],
      \* line 122: r"specs"
      [groups |-> 0, re |-> Lit(<<"s", "p", "e", "c", "s">>)]
    >>

P_DISK_SPACE ==
    <<
      \* line 125: r"disk\s+space"
      [groups |-> 0, re |-> Cat(<<Lit(<<"d", "i", "s", "k">>), Ws, Lit(<<"s", "p", "a",
          "c", "e">>)>>)],
      \* line 126: r"storage"
      [groups |-> 0, re |-> Lit(<<"s", "t", "o", "r", "a", "g", "e">>)],
      \* line 127: r"how\s+much\s+space"
      [groups |-> 0, re |-> Cat(<<Lit(<<"h", "o", "w">>), Ws, Lit(<<"m", "u", "c", "h">>),
          Ws, Lit(<<"s", "p", "a", "c", "e">>)>>)]
    >>

P_MEMORY_INFO ==
    <<
      \* line 130: r"memory"
      [groups |-> 0, re |-> Lit(<<"m", "e", "m", "o", "r", "y">>)],
      \* line 131: r"ram"
      [groups |-> 0, re |-> Lit(<<"r", "a", "m">>)],
      \* line 132: r"how\s+much\s+ram"
      [groups |-> 0, re |-> Cat(<<Lit(<<"h", "o", "w">>), Ws, Lit(<<"m", "u", "c", "h">>),
          Ws, Lit(<<"r", "a", "m">>)>>)]
    >>

P_SHARE_FILES ==
    <<
      \* line 135: r"share\s+(.+)"
      [groups |-> 1, re |-> Cat(<<Lit(<<"s", "h", "a", "r", "e">>), Ws, Grp(1, Any1)>>)],
      \* line 136: r"send\s+(.+)\s+to\s+(.+)"
      [groups |-> 2, re |-> Cat(<<Lit(<<"s", "e", "n", "d">>), Ws, Grp(1, Any1), Ws,
          Lit(<<"t", "o">>), Ws, Grp(2, Any1)>>)]
    >>

P_LIST_DEVICES ==
    <<
      \* line 139: r"who\s+is\s+online"
      [groups |-> 0, re |-> Cat(<<Lit(<<"w", "h", "o">>), Ws, Lit(<<"i", "s">>), Ws,
          Lit(<<"o", "n", "l", "i", "n", "e">>)>>)],
      \* line 140: r"list\s+devices"
      [groups |-> 0, re |-> Cat(<<Lit(<<"l", "i", "s", "t">>), Ws, Lit(<<"d", "e", "v",
          "i", "c", "e", "s">>)>>)],
      \* line 141: r"show\s+students"
      [groups |-> 0, re |-> Cat(<<Lit(<<"s", "h", "o", "w">>), Ws, Lit(<<"s", "t", "u",
          "d", "e", "n", "t", "s">>)>>)]
    >>

P_GREETING ==
    <<
      \* line 144: r"^(hi|hello|hey|\u179f\u17bd\u179f\u17d2\u178f\u17b8)$"
      [groups |-> 1, re |-> Cat(<<Bol, Grp(1, Alt(<<Lit(<<"h", "i">>), Lit(<<"h", "e", "l",
          "l", "o">>), Lit(<<"h", "e", "y">>), Lit(<<"U+179F", "U+17BD", "U+179F",
          "U+17D2", "U+178F", "U+17B8">>)>>)), Eol>>)],
      \* line 145: r"good\s+(morning|afternoon|evening)"
      [groups |-> 1, re |-> Cat(<<Lit(<<"g", "o", "o", "d">>), Ws, Grp(1, Alt(<<Lit(<<"m",
          "o", "r", "n", "i", "n", "g">>), Lit(<<"a", "f", "t", "e", "r", "n", "o", "o",
          "n">>), Lit(<<"e", "v", "e", "n", "i", "n", "g">>)>>))>>)]
    >>

P_HELP ==
    <<
      \* line 148: r"^help$"
      [groups |-> 0, re |-> Cat(<<Bol, Lit(<<"h", "e", "l", "p">>), Eol>>)],
      \* line 149: r"what\s+can\s+you\s+do"
      [groups |-> 0, re |-> Cat(<<Lit(<<"w", "h", "a", "t">>), Ws, Lit(<<"c", "a", "n">>),
          Ws, Lit(<<"y", "o", "u">>), Ws, Lit(<<"d", "o">>)>>)],
      \* line 150: r"how\s+do\s+i\s+use\s+(?:this|koompi)"
      [groups |-> 0, re |-> Cat(<<Lit(<<"h", "o", "w">>), Ws, Lit(<<"d", "o">>), Ws,
          Lit(<<"i">>), Ws, Lit(<<"u", "s", "e">>), Ws, Alt(<<Lit(<<"t", "h", "i", "s">>),
          Lit(<<"k", "o", "o", "m", "p", "i">>)>>)>>)],
      \* line 151: r"\u1787\u17bd\u1799"
      [groups |-> 0, re |-> Lit(<<"U+1787", "U+17BD", "U+1799">>)]
    >>

P_INSTALL_DESKTOP ==
    <<
      \* line 154: r"(?:help\s+me\s+)?install\s+(kde|plasma|gnome|xfce|cinnamon|mate|i3|sway|hyprland)"
      [groups |-> 1, re |-> Cat(<<Opt(Cat(<<Lit(<<"h", "e", "l", "p">>), Ws, Lit(<<"m",
          "e">>), Ws>>)), Lit(<<"i", "n", "s", "t", "a", "l", "l">>), Ws, Grp(1,
          Alt(<<Lit(<<"k", "d", "e">>), Lit(<<"p", "l", "a", "s", "m", "a">>), Lit(<<"g",
          "n", "o", "m", "e">>), Lit(<<"x", "f", "c", "e">>), Lit(<<"c", "i", "n", "n",
          "a", "m", "o", "n">>), Lit(<<"m", "a", "t", "e">>), Lit(<<"i", "3">>), Lit(<<"s",
          "w", "a", "y">>), Lit(<<"h", "y", "p", "r", "l", "a", "n", "d">>)>>))>>)],
      \* line 155: r"(?:i\s+want\s+)?(?:to\s+use\s+)?(kde|plasma|gnome|xfce|cinnamon|mate|i3|sway|hyprland)"
      [groups |-> 1, re |-> Cat(<<Opt(Cat(<<Lit(<<"i">>), Ws, Lit(<<"w", "a", "n", "t">>),
          Ws>>)), Opt(Cat(<<Lit(<<"t", "o">>), Ws, Lit(<<"u", "s", "e">>), Ws>>)), Grp(1,
          Alt(<<Lit(<<"k", "d", "e">>), Lit(<<"p", "l", "a", "s", "m", "a">>), Lit(<<"g",
          "n", "o", "m", "e">>), Lit(<<"x", "f", "c", "e">>), Lit(<<"c", "i", "n", "n",
          "a", "m", "o", "n">>), Lit(<<"m", "a", "t", "e">>), Lit(<<"i", "3">>), Lit(<<"s",
          "w", "a", "y">>), Lit(<<"h", "y", "p", "r", "l", "a", "n", "d">>)>>))>>)],
      \* line 156: r"setup\s+(kde|plasma|gnome|xfce|cinnamon|mate|i3|sway|hyprland)"
      [groups |-> 1, re |-> Cat(<<Lit(<<"s", "e", "t", "u", "p">>), Ws, Grp(1,
          Alt(<<Lit(<<"k", "d", "e">>), Lit(<<"p", "l", "a", "s", "m", "a">>), Lit(<<"g",
          "n", "o", "m", "e">>), Lit(<<"x", "f", "c", "e">>), Lit(<<"c", "i", "n", "n",
          "a", "m", "o", "n">>), Lit(<<"m", "a", "t", "e">>), Lit(<<"i", "3">>), Lit(<<"s",
          "w", "a", "y">>), Lit(<<"h", "y", "p", "r", "l", "a", "n", "d">>)>>))>>)],
      \* line 157: r"switch\s+to\s+(kde|plasma|gnome|xfce|cinnamon|mate|i3|sway|hyprland)"
      [groups |-> 1, re |-> Cat(<<Lit(<<"s", "w", "i", "t", "c", "h">>), Ws, Lit(<<"t",
          "o">>), Ws, Grp(1, Alt(<<Lit(<<"k", "d", "e">>), Lit(<<"p", "l", "a", "s", "m",
          "a">>), Lit(<<"g", "n", "o", "m", "e">>), Lit(<<"x", "f", "c", "e">>), Lit(<<"c",
          "i", "n", "n", "a", "m", "o", "n">>), Lit(<<"m", "a", "t", "e">>), Lit(<<"i",
          "3">>), Lit(<<"s", "w", "a", "y">>), Lit(<<"h", "y", "p", "r", "l", "a", "n",
          "d">>)>>))>>)],
      \* line 158: r"(?:give\s+me\s+)?(?:a\s+)?(kde|plasma|gnome|xfce|cinnamon|mate|i3|sway|hyprland)\s+desktop"
      [groups |-> 1, re |-> Cat(<<Opt(Cat(<<Lit(<<"g", "i", "v", "e">>), Ws, Lit(<<"m",
          "e">>), Ws>>)), Opt(Cat(<<Lit(<<"a">>), Ws>>)), Grp(1, Alt(<<Lit(<<"k", "d",
          "e">>), Lit(<<"p", "l", "a", "s", "m", "a">>), Lit(<<"g", "n", "o", "m", "e">>),
          Lit(<<"x", "f", "c", "e">>), Lit(<<"c", "i", "n", "n", "a", "m", "o", "n">>),
          Lit(<<"m", "a", "t", "e">>), Lit(<<"i", "3">>), Lit(<<"s", "w", "a", "y">>),
          Lit(<<"h", "y", "p", "r", "l", "a", "n", "d">>)>>)), Ws, Lit(<<"d", "e", "s",
          "k", "t", "o", "p">>)>>)]
    >>

\* PATTERNS: the intents in the order of the dictionary, each with its patterns
PATTERNS ==
    << [intent |-> "INSTALL_PACKAGE", patterns |-> P_INSTALL_PACKAGE],
       [intent |-> "REMOVE_PACKAGE", patterns |-> P_REMOVE_PACKAGE],
       [intent |-> "UPDATE_SYSTEM", patterns |-> P_UPDATE_SYSTEM],
       [intent |-> "SEARCH_PACKAGE", patterns |-> P_SEARCH_PACKAGE],
       [intent |-> "CREATE_SNAPSHOT", patterns |-> P_CREATE_SNAPSHOT],
       [intent |-> "LIST_SNAPSHOTS", patterns |-> P_LIST_SNAPSHOTS],
       [intent |-> "ROLLBACK", patterns |-> P_ROLLBACK],
       [intent |-> "SYSTEM_INFO", patterns |-> P_SYSTEM_INFO],
       [intent |-> "DISK_SPACE", patterns |-> P_DISK_SPACE],
       [intent |-> "MEMORY_INFO", patterns |-> P_MEMORY_INFO],
       [intent |-> "SHARE_FILES", patterns |-> P_SHARE_FILES],
       [intent |-> "LIST_DEVICES", patterns |-> P_LIST_DEVICES],
       [intent |-> "GREETING", patterns |-> P_GREETING],
       [intent |-> "HELP", patterns |-> P_HELP],
       [intent |-> "INSTALL_DESKTOP", patterns |-> P_INSTALL_DESKTOP] >>

\* line 205: r'^(the|a|an|package|app|application|program)\s+'
LeadingFiller ==
    [groups |-> 1, re |-> Cat(<<Bol, Grp(1, Alt(<<Lit(<<"t", "h", "e">>), Lit(<<"a">>),
        Lit(<<"a", "n">>), Lit(<<"p", "a", "c", "k", "a", "g", "e">>), Lit(<<"a", "p",
        "p">>), Lit(<<"a", "p", "p", "l", "i", "c", "a", "t", "i", "o", "n">>), Lit(<<"p",
        "r", "o", "g", "r", "a", "m">>)>>)), Ws>>)]

\* line 206: r'\s+(package|app|application|program)$'
TrailingFiller ==
    [groups |-> 1, re |-> Cat(<<Ws, Grp(1, Alt(<<Lit(<<"p", "a", "c", "k", "a", "g",
        "e">>), Lit(<<"a", "p", "p">>), Lit(<<"a", "p", "p", "l", "i", "c", "a", "t", "i",
        "o", "n">>), Lit(<<"p", "r", "o", "g", "r", "a", "m">>)>>)), Eol>>)]

\* ------------------------------------------------------------------------
\* IntentClassifier
\* ------------------------------------------------------------------------

PackageIntents == {"INSTALL_PACKAGE", "REMOVE_PACKAGE", "SEARCH_PACKAGE"}

\* an empty dict, and a dict with one key
EmptyDict == <<>>

OneEntry(key, value) == key :> value

\* lines 203-207: the package name cleaned of filler words
CleanPackageName(group) ==
    Strip(re_sub(TrailingFiller, re_sub(LeadingFiller, Strip(group))))

\* the alias is not applied
NormalDesktop_Keep(de) == de

\* lines 219-223: the desktop name, lower case, plasma read as kde
NormalDesktop(de) ==
    IF de = <<"p", "l", "a", "s", "m", "a">> THEN <<"k", "d", "e">> ELSE de

\* _extract_entities calls .strip() or .lower() on a group that is None
ExtractRaises(intent, groups) ==
    /\ intent \in PackageIntents \cup {"SHARE_FILES", "INSTALL_DESKTOP"}
    /\ Len(groups) > 0
    /\ GroupIsNone(groups, 1)

\* the rollback branch is missing
_extract_entities_NoSnapshot(intent, text, groups) ==
    IF intent \in PackageIntents
    THEN (IF Len(groups) > 0
          THEN OneEntry("package_name", CleanPackageName(GroupText(text, groups, 1)))
          ELSE EmptyDict)
    ELSE IF intent = "ROLLBACK"
    THEN EmptyDict
    ELSE IF intent = "SHARE_FILES"
    THEN (IF Len(groups) > 0
          THEN OneEntry("files", Strip(GroupText(text, groups, 1)))
          ELSE EmptyDict)
    ELSE IF intent = "INSTALL_DESKTOP"
    THEN (IF Len(groups) > 0
          THEN OneEntry("desktop", NormalDesktop(Strip(Lower(GroupText(text, groups, 1)))))
          ELSE EmptyDict)
    ELSE EmptyDict

_extract_entities(intent, text, groups) ==
    IF intent \in PackageIntents
    THEN (IF Len(groups) > 0
          THEN OneEntry("package_name", CleanPackageName(GroupText(text, groups, 1)))
          ELSE EmptyDict)
    ELSE IF intent = "ROLLBACK"
    THEN (IF Len(groups) >= 1 /\ ~GroupIsNone(groups, 1)
          THEN OneEntry("snapshot_id", Strip(GroupText(text, groups, 1)))
          ELSE EmptyDict)
    ELSE IF intent = "SHARE_FILES"
    THEN (IF Len(groups) > 0
          THEN OneEntry("files", Strip(GroupText(text, groups, 1)))
          ELSE EmptyDict)
    ELSE IF intent = "INSTALL_DESKTOP"
    THEN (IF Len(groups) > 0
          THEN OneEntry("desktop", NormalDesktop(Strip(Lower(GroupText(text, groups, 1)))))
          ELSE EmptyDict)
    ELSE EmptyDict

\* for pattern in patterns: the position of the first pattern that matches,
\* 0 when none does
RECURSIVE FirstPattern(_, _, _)
FirstPattern(patterns, k, text) ==
    IF k > Len(patterns) THEN 0
    ELSE IF re_search(patterns[k], text).found THEN k
    ELSE FirstPattern(patterns, k + 1, text)

\* the last intent in declared order one of whose patterns matches
LastOf(S) == IF S = {} THEN 0 ELSE CHOOSE j \in S : \A i \in S : i <= j

FirstIntent_Reversed(k, text) ==
    LastOf({j \in k..Len(PATTERNS) : FirstPattern(PATTERNS[j].patterns, 1, text) /= 0})

\* for intent, patterns in self._compiled_patterns.items(): the position of
\* the first intent one of whose patterns matches, 0 when none does
RECURSIVE FirstIntent(_, _)
FirstIntent(k, text) ==
    IF k > Len(PATTERNS) THEN 0
    ELSE IF FirstPattern(PATTERNS[k].patterns, 1, text) /= 0 THEN k
    ELSE FirstIntent(k + 1, text)

\* a match reported with the confidence of no match
ClassifiedMatch_Unsure(intent, text, match) ==
    IF ExtractRaises(intent, match.groups)
    THEN [raised |-> TRUE, error |-> "AttributeError"]
    ELSE [raised |-> FALSE, error |-> NoneVal,
          intent |-> intent, confidence |-> 50,
          entities |-> _extract_entities(intent, text, match.groups),
          raw_text |-> text]

\* lines 180-186: the result for the match of a pattern of intent
ClassifiedMatch(intent, text, match) ==
    IF ExtractRaises(intent, match.groups)
    THEN [raised |-> TRUE, error |-> "AttributeError"]
    ELSE [raised |-> FALSE, error |-> NoneVal,
          intent |-> intent, confidence |-> 90,
          entities |-> _extract_entities(intent, text, match.groups),
          raw_text |-> text]

\* lines 176-193 for the intent at position k, 0 for no intent
ClassifiedAt(k, text) ==
    IF k = 0
    THEN [raised |-> FALSE, error |-> NoneVal,
          intent |-> "UNKNOWN", confidence |-> 50,
          entities |-> EmptyDict, raw_text |-> text]
    ELSE ClassifiedMatch(PATTERNS[k].intent, text,
             re_search(PATTERNS[k].patterns[FirstPattern(PATTERNS[k].patterns, 1, text)],
                       text))

\* text = text.strip(), then the scan
classify(text) == ClassifiedAt(FirstIntent(1, Strip(text)), Strip(text))

\* the texts classify is called with
Texts ==
    { <<"i", "n", "s", "t", "a", "l", "l", " ", "f", "i", "r", "e", "f", "o", "x">>,
      <<"i", "n", "s", "t", "a", "l", "l", " ", "k", "d", "e">>,
      <<"h", "e", "l", "p", " ", "m", "e", " ", "i", "n", "s", "t", "a", "l", "l", " ", "p", "l", "a", "s", "m", "a">>,
      <<"s", "w", "i", "t", "c", "h", " ", "t", "o", " ", "p", "l", "a", "s", "m", "a">>,
      <<"s", "w", "i", "t", "c", "h", " ", "t", "o", " ", "P", "l", "a", "s", "m", "a">>,
      <<"P", "L", "A", "S", "M", "A">>,
      <<"i", " ", "w", "a", "n", "t", " ", "t", "o", " ", "u", "s", "e", " ", "G", "N", "O", "M", "E">>,
      <<"k", "d", "e", " ", "d", "e", "s", "k", "t", "o", "p">>,
      <<"s", "e", "t", "u", "p", " ", "x", "f", "c", "e">>,
      <<"s", "e", "t", "u", "p", " ", "d", "o", "c", "k", "e", "r">>,
      <<"t", "h", "e", " ", "q", "u", "i", "c", "k", " ", "b", "r", "o", "w", "n", " ", "f", "o", "x">>,
      <<>>,
      <<"h", "i">>,
      <<"h", "i", " ", "m", "a", "t", "e">>,
      <<"h", "e", "l", "p">>,
      <<"h", "e", "l", "p", " ", "m", "e">>,
      <<"i", "n", "s", "t", "a", "l", "l", " ", "t", "h", "e", " ", "p", "a", "c", "k", "a", "g", "e", " ", "f", "i", "r", "e", "f", "o", "x">>,
      <<"i", "n", "s", "t", "a", "l", "l", " ", "f", "i", "r", "e", "f", "o", "x", " ", "t", "h", "e">>,
      <<"i", "n", "s", "t", "a", "l", "l", " ", "t", "h", "e", " ", "f", "i", "r", "e", "f", "o", "x", " ", "a", "p", "p">>,
      <<"i", "n", "s", "t", "a", "l", "l", " ", "a", " ", "p", "r", "o", "g", "r", "a", "m">>,
      <<"r", "e", "m", "o", "v", "e", " ", "t", "h", "e", " ", "a", "p", "p", " ", "v", "l", "c">>,
      <<"u", "n", "i", "n", "s", "t", "a", "l", "l", " ", "a", "n", " ", "e", "d", "i", "t", "o", "r", " ", "p", "r", "o", "g", "r", "a", "m">>,
      <<"s", "e", "a", "r", "c", "h", " ", "f", "o", "r", " ", "t", "h", "e", " ", "v", "i", "m", " ", "p", "a", "c", "k", "a", "g", "e">>,
      <<"g", "e", "t", " ", "r", "i", "d", " ", "o", "f", " ", "v", "l", "c">>,
      <<"f", "i", "r", "e", "f", "o", "x", " ", "i", "n", "s", "t", "a", "l", "l", "e", "d">>,
      <<" ", " ", "i", "n", "s", "t", "a", "l", "l", " ", " ", " ", "v", "i", "m", " ", " ">>,
      <<"u", "p", "d", "a", "t", "e", " ", "m", "y", " ", "s", "y", "s", "t", "e", "m">>,
      <<"u", "p", "g", "r", "a", "d", "e">>,
      <<"c", "r", "e", "a", "t", "e", " ", "a", " ", "s", "n", "a", "p", "s", "h", "o", "t">>,
      <<"s", "n", "a", "p", "s", "h", "o", "t", "s">>,
      <<"m", "y", " ", "s", "n", "a", "p", "s", "h", "o", "t", "s">>,
      <<"r", "o", "l", "l", "b", "a", "c", "k">>,
      <<"r", "o", "l", "l", "b", "a", "c", "k", " ", "t", "o", " ", "s", "n", "a", "p", "1">>,
      <<"u", "n", "d", "o", " ", "c", "h", "a", "n", "g", "e", "s">>,
      <<"g", "o", " ", "b", "a", "c", "k", " ", "t", "o", " ", "s", "n", "a", "p", "s", "h", "o", "t", " ", "3">>,
      <<"s", "y", "s", "t", "e", "m", " ", "i", "n", "f", "o">>,
      <<"a", "b", "o", "u", "t", " ", "c", "o", "m", "p", "u", "t", "e", "r">>,
      <<"d", "i", "s", "k", " ", "s", "p", "a", "c", "e">>,
      <<"h", "o", "w", " ", "m", "u", "c", "h", " ", "r", "a", "m">>,
      <<"p", "r", "o", "g", "r", "a", "m">>,
      <<"s", "h", "a", "r", "e", " ", "a", ".", "t", "x", "t">>,
      <<"s", "e", "n", "d", " ", "a", ".", "t", "x", "t", " ", "t", "o", " ", "b", "o", "b">>,
      <<"w", "h", "o", " ", "i", "s", " ", "o", "n", "l", "i", "n", "e">>,
      <<"g", "o", "o", "d", " ", "m", "o", "r", "n", "i", "n", "g">>,
      <<"w", "h", "a", "t", " ", "c", "a", "n", " ", "y", "o", "u", " ", "d", "o">>,
      <<"U+178A", "U+17C6", "U+17A1", "U+17BE", "U+1784", " ", "f", "i", "r", "e", "f", "o", "x">>,
      <<"U+1787", "U+17BD", "U+1799">>,
      <<"U+179F", "U+17BD", "U+179F", "U+17D2", "U+178F", "U+17B8">>,
      <<"U+179B", "U+17BB", "U+1794", " ", "v", "i", "m">> }

Classify ==
    /\ Idle
    /\ \E text \in Texts :
      \E r \in {classify(text)} :
        /\ ret' = [op |-> "classify", args |-> [text |-> text],
                   raised |-> r.raised, error |-> r.error, value |-> r]
        /\ UNCHANGED <<store, llm, gen, startup>>

\* the prompts _get_offline_response is called with
CannedPrompts ==
    { <<"h", "i">>,
      <<"H", "e", "l", "l", "o", " ", "t", "h", "e", "r", "e">>,
      <<"t", "h", "i", "s", " ", "i", "s", " ", "i", "t">>,
      <<"m", "a", "c", "h", "i", "n", "e">>,
      <<"h", "e", "l", "p">>,
      <<" ", "H", "e", "l", "p", " ">>,
      <<"?">>,
      <<"w", "h", "a", "t", " ", "c", "a", "n", " ", "y", "o", "u", " ", "d", "o">>,
      <<"h", "e", "l", "p", " ", "m", "e">>,
      <<"i", "n", "s", "t", "a", "l", "l", " ", "v", "i", "m">>,
      <<"r", "e", "m", "o", "v", "e", " ", "a", "n", "d", " ", "i", "n", "s", "t", "a", "l", "l">>,
      <<"u", "n", "i", "n", "s", "t", "a", "l", "l", " ", "v", "i", "m">>,
      <<"u", "p", "d", "a", "t", "e">>,
      <<"u", "p", "g", "r", "a", "d", "e", " ", "p", "y", "t", "h", "o", "n">>,
      <<"b", "a", "c", "k", "u", "p", " ", "s", "n", "a", "p", "s", "h", "o", "t">>,
      <<"r", "o", "l", "l", "b", "a", "c", "k">>,
      <<"r", "e", "s", "t", "o", "r", "e", " ", "b", "a", "c", "k", "u", "p">>,
      <<"d", "i", "s", "k", " ", "s", "p", "a", "c", "e">>,
      <<"d", "f", " ", "-", "h">>,
      <<"f", "r", "e", "e", " ", "r", "a", "m">>,
      <<"f", "r", "e", "e", " ", "d", "i", "s", "k">>,
      <<"w", "i", "n", "d", "o", "w", "s", " ", "c", "m", "d">>,
      <<"m", "a", "c">>,
      <<"h", "o", "m", "e", "b", "r", "e", "w", " ", "o", "n", " ", "m", "a", "c", "o", "s">>,
      <<"p", "y", "t", "h", "o", "n", " ", "v", "e", "n", "v">>,
      <<"p", "i", "p", " ", "i", "n", "s", "t", "a", "l", "l">>,
      <<"g", "i", "t", " ", "p", "u", "s", "h">>,
      <<"g", "i", "t", " ", "c", "l", "o", "n", "e", " ", "o", "n", " ", "w", "i", "n", "d", "o", "w", "s">>,
      <<"c", "o", "m", "m", "i", "t">>,
      <<"z", "z">>,
      <<>>,
      <<"t", "h", "e", " ", "w", "e", "a", "t", "h", "e", "r">>,
      <<"g", "o", "o", "d", " ", "m", "o", "r", "n", "i", "n", "g">>,
      <<"U+179F", "U+17BD", "U+179F", "U+17D2", "U+178F", "U+17B8">>,
      <<"U+178A", "U+17C6", "U+17A1", "U+17BE", "U+1784", " ", "v", "i", "m">>,
      <<"U+179B", "U+17BB", "U+1794", " ", "v", "i", "m">> }

\* a call of _get_offline_response; found tells a text from None
GetOfflineResponse ==
    /\ Idle
    /\ \E prompt \in CannedPrompts :
      \E r \in {get_offline_response(prompt)} :
        /\ ret' = [op |-> "get_offline_response", args |-> [prompt |-> prompt],
                   raised |-> FALSE, error |-> NoneVal, found |-> r /= <<>>, value |-> r]
        /\ UNCHANGED <<store, llm, gen, startup>>

\* ------------------------------------------------------------------------
\* get_knowledge_base, KnowledgeBase.get_stats, seed_knowledge_base
\* ------------------------------------------------------------------------

\* CORE_ARCHWIKI_ARTICLES with source="archwiki", as seed_knowledge_base passes
\* them to add_article; a content is one symbol
CORE_ARCHWIKI_ARTICLES ==
    << [title |-> <<"P", "a", "c", "m", "a", "n">>,
        content |-> << "<CORE_ARCHWIKI_ARTICLES[0].content>" >>,
        category |-> <<"p", "a", "c", "k", "a", "g", "e", "_", "m", "a", "n", "a", "g", "e", "m", "e", "n", "t">>,
        source |-> "archwiki", url |-> "https://wiki.archlinux.org/title/Pacman"],
       [title |-> <<"A", "U", "R", " ", "(", "A", "r", "c", "h", " ", "U", "s", "e", "r", " ", "R", "e", "p", "o", "s", "i", "t", "o", "r", "y", ")">>,
        content |-> << "<CORE_ARCHWIKI_ARTICLES[1].content>" >>,
        category |-> <<"p", "a", "c", "k", "a", "g", "e", "_", "m", "a", "n", "a", "g", "e", "m", "e", "n", "t">>,
        source |-> "archwiki", url |-> "https://wiki.archlinux.org/title/AUR"],
       [title |-> <<"S", "y", "s", "t", "e", "m", "d">>,
        content |-> << "<CORE_ARCHWIKI_ARTICLES[2].content>" >>,
        category |-> <<"s", "y", "s", "t", "e", "m">>,
        source |-> "archwiki", url |-> "https://wiki.archlinux.org/title/Systemd"],
       [title |-> <<"B", "t", "r", "f", "s">>,
        content |-> << "<CORE_ARCHWIKI_ARTICLES[3].content>" >>,
        category |-> <<"f", "i", "l", "e", "s", "y", "s", "t", "e", "m">>,
        source |-> "archwiki", url |-> "https://wiki.archlinux.org/title/Btrfs"],
       [title |-> <<"N", "e", "t", "w", "o", "r", "k", " ", "C", "o", "n", "f", "i", "g", "u", "r", "a", "t", "i", "o", "n">>,
        content |-> << "<CORE_ARCHWIKI_ARTICLES[4].content>" >>,
        category |-> <<"n", "e", "t", "w", "o", "r", "k", "i", "n", "g">>,
        source |-> "archwiki", url |-> "https://wiki.archlinux.org/title/Network_configuration"],
       [title |-> <<"U", "s", "e", "r", "s", " ", "a", "n", "d", " ", "G", "r", "o", "u", "p", "s">>,
        content |-> << "<CORE_ARCHWIKI_ARTICLES[5].content>" >>,
        category |-> <<"s", "y", "s", "t", "e", "m">>,
        source |-> "archwiki", url |-> "https://wiki.archlinux.org/title/Users_and_groups"],
       [title |-> <<"D", "e", "s", "k", "t", "o", "p", " ", "E", "n", "v", "i", "r", "o", "n", "m", "e", "n", "t", "s">>,
        content |-> << "<CORE_ARCHWIKI_ARTICLES[6].content>" >>,
        category |-> <<"d", "e", "s", "k", "t", "o", "p">>,
        source |-> "archwiki", url |-> "https://wiki.archlinux.org/title/Desktop_environment"],
       [title |-> <<"I", "n", "s", "t", "a", "l", "l", "a", "t", "i", "o", "n", " ", "G", "u", "i", "d", "e">>,
        content |-> << "<CORE_ARCHWIKI_ARTICLES[7].content>" >>,
        category |-> <<"i", "n", "s", "t", "a", "l", "l", "a", "t", "i", "o", "n">>,
        source |-> "archwiki", url |-> "https://wiki.archlinux.org/title/Installation_guide"],
       [title |-> <<"S", "S", "H">>,
        content |-> << "<CORE_ARCHWIKI_ARTICLES[8].content>" >>,
        category |-> <<"n", "e", "t", "w", "o", "r", "k", "i", "n", "g">>,
        source |-> "archwiki", url |-> "https://wiki.archlinux.org/title/SSH"],
       [title |-> <<"F", "l", "a", "t", "p", "a", "k">>,
        content |-> << "<CORE_ARCHWIKI_ARTICLES[9].content>" >>,
        category |-> <<"p", "a", "c", "k", "a", "g", "e", "_", "m", "a", "n", "a", "g", "e", "m", "e", "n", "t">>,
        source |-> "archwiki", url |-> "https://wiki.archlinux.org/title/Flatpak"] >>

\* koompi_articles with source="koompi"; add_article is called without url
koompi_articles ==
    << [title |-> <<"K", "O", "O", "M", "P", "I", " ", "O", "S", " ", "O", "v", "e", "r", "v", "i", "e", "w">>,
        content |-> << "<koompi_articles[0].content>" >>,
        category |-> <<"k", "o", "o", "m", "p", "i">>,
        source |-> "koompi", url |-> NoneVal],
       [title |-> <<"K", "O", "O", "M", "P", "I", " ", "S", "n", "a", "p", "s", "h", "o", "t", "s">>,
        content |-> << "<koompi_articles[1].content>" >>,
        category |-> <<"k", "o", "o", "m", "p", "i">>,
        source |-> "koompi", url |-> NoneVal] >>

\* the lists are cut to their first MaxCore and MaxKoompi articles
SeedArticles ==
    Take(CORE_ARCHWIKI_ARTICLES, MaxCore) \o Take(koompi_articles, MaxKoompi)

\* the callers of the module-level functions
Threads == {"t1", "t2"}

\* a caller that is in none of the functions
IdleCaller == [pc |-> "idle"]

\* SELECT COUNT(*) FROM articles
CountAll(rows) == Len(rows)

\* dict(SELECT source, COUNT(*) FROM articles GROUP BY source)
CountBySource(rows) ==
    [s \in {rows[i].source : i \in 1..Len(rows)} |->
        Cardinality({i \in 1..Len(rows) : rows[i].source = s})]

\* dict(SELECT category, COUNT(*) FROM articles GROUP BY category)
CountByCategory(rows) ==
    [c \in {rows[i].category : i \in 1..Len(rows)} |->
        Cardinality({i \in 1..Len(rows) : rows[i].category = c})]

\* get_knowledge_base() is entered
GetKnowledgeBaseCall(t) ==
    /\ callers[t].pc \in {"idle", "done"}
    /\ callers' = [callers EXCEPT ![t] = [pc |-> "check"]]
    /\ UNCHANGED <<store, llm, gen, ret, _kb, made>>

\* if _kb is None:
CheckNone(t) ==
    /\ callers[t].pc = "check"
    /\ callers' = [callers EXCEPT ![t] =
                      [pc |-> IF _kb = NoInstance THEN "construct" ELSE "return"]]
    /\ UNCHANGED <<store, llm, gen, ret, _kb, made>>

\* KnowledgeBase(): a new object; _init_db creates what does not exist yet
\* and leaves the rows alone
Construct(t) ==
    /\ callers[t].pc = "construct"
    /\ made' = made + 1
    /\ callers' = [callers EXCEPT ![t] = [pc |-> "assign", new |-> made + 1]]
    /\ UNCHANGED <<store, llm, gen, ret, _kb>>

\* _kb = ...
AssignGlobal(t) ==
    /\ callers[t].pc = "assign"
    /\ _kb' = callers[t].new
    /\ callers' = [callers EXCEPT ![t] = [pc |-> "stats_total"]]
    /\ UNCHANGED <<store, llm, gen, ret, made>>

\* get_stats, first statement: each execute reads the database as committed
\* when it runs (the connection has no transaction open for a SELECT)
StatsTotal(t) ==
    /\ callers[t].pc = "stats_total"
    /\ callers' = [callers EXCEPT ![t] =
                      [pc |-> "stats_source", total |-> CountAll(articles)]]
    /\ UNCHANGED <<store, llm, gen, ret, _kb, made>>

\* get_stats, second statement
StatsBySource(t) ==
    /\ callers[t].pc = "stats_source"
    /\ callers' = [callers EXCEPT ![t] =
                      [pc |-> "stats_category", total |-> callers[t].total,
                       by_source |-> CountBySource(articles)]]
    /\ UNCHANGED <<store, llm, gen, ret, _kb, made>>

\* get_stats, third statement, and the dict it returns
StatsByCategory(t) ==
    /\ callers[t].pc = "stats_category"
    /\ callers' = [callers EXCEPT ![t] =
                      [pc |-> "decide",
                       stats |-> [total_articles |-> callers[t].total,
                                  by_source |-> callers[t].by_source,
                                  by_category |-> CountByCategory(articles)]]]
    /\ UNCHANGED <<store, llm, gen, ret, _kb, made>>

\* if stats["total_articles"] == 0: seed_knowledge_base(_kb)
DecideSeed(t) ==
    /\ callers[t].pc = "decide"
    /\ callers' = [callers EXCEPT ![t] =
                      IF callers[t].stats.total_articles = 0
                      THEN [pc |-> "seed", i |-> 1, stats |-> callers[t].stats]
                      ELSE [pc |-> "return", stats |-> callers[t].stats]]
    /\ UNCHANGED <<store, llm, gen, ret, _kb, made>>

\* seed_knowledge_base: kb.add_article(...) of the next built-in article
\* executes its statement; a writer waits while another transaction is open
SeedAddArticle(t) ==
    /\ callers[t].pc = "seed"
    /\ callers[t].i <= Len(SeedArticles)
    /\ ~txn.open
    /\ txn' = [open |-> TRUE, args |-> SeedArticles[callers[t].i],
               articles |-> UpsertRows(SeedArticles[callers[t].i]),
               articles_fts |-> UpsertFts(SeedArticles[callers[t].i]),
               id |-> UpsertId(SeedArticles[callers[t].i])]
    /\ callers' = [callers EXCEPT ![t].pc = "commit"]
    /\ UNCHANGED <<articles, articles_fts, seq, llm, gen, ret, _kb, made>>

\* conn.commit() of that add_article
SeedCommit(t) ==
    /\ callers[t].pc = "commit"
    /\ txn.open
    /\ articles' = txn.articles
    /\ articles_fts' = txn.articles_fts
    /\ seq' = seq + 1
    /\ txn' = NoTxn
    /\ callers' = [callers EXCEPT ![t].pc = "seed", ![t].i = @ + 1]
    /\ UNCHANGED <<llm, gen, ret, _kb, made>>

\* both loops of seed_knowledge_base are through
SeedDone(t) ==
    /\ callers[t].pc = "seed"
    /\ callers[t].i > Len(SeedArticles)
    /\ callers' = [callers EXCEPT ![t] =
                      [pc |-> "return", stats |-> callers[t].stats, seeded |-> TRUE]]
    /\ UNCHANGED <<store, llm, gen, ret, _kb, made>>

\* return _kb: the global is read when the function returns
GetKnowledgeBaseReturn(t) ==
    /\ callers[t].pc = "return"
    /\ callers' = [callers EXCEPT ![t] = [pc |-> "done", result |-> _kb]]
    /\ UNCHANGED <<store, llm, gen, ret, _kb, made>>

\* ------------------------------------------------------------------------
\* Specification
\* ------------------------------------------------------------------------

Init ==
    /\ articles = <<>>
    /\ articles_fts = <<>>
    /\ seq = 0
    /\ txn = NoTxn
    /\ llm \in LLMStates
    /\ gen = IdleFrame
    /\ ret = [op |-> "none"]
    /\ _kb = NoInstance
    /\ made = 0
    /\ callers = [t \in Threads |-> IdleCaller]

Next ==
    \/ AddArticle
    \/ Commit
    \/ GetArticle
    \/ Search
    \/ BuildContext
    \/ Return
    \/ GenerateCall
    \/ GenerateStep1
    \/ GenerateOffline
    \/ GenerateRemoteCall
    \/ RemoteSuccess
    \/ RemoteFailure

Spec == Init /\ [][Next]_vars

\* the classifier on its own: it reads and writes nothing of the store or
\* of the assistant
NextIntent ==
    \/ Classify
    \/ Return

SpecIntent == Init /\ [][NextIntent]_vars

\* the canned lookup on its own
NextCanned ==
    \/ GetOfflineResponse
    \/ Return

SpecCanned == Init /\ [][NextCanned]_vars

\* concurrent first use of the knowledge base
NextStartup ==
    \E t \in Threads :
        \/ GetKnowledgeBaseCall(t)
        \/ CheckNone(t)
        \/ Construct(t)
        \/ AssignGlobal(t)
        \/ StatsTotal(t)
        \/ StatsBySource(t)
        \/ StatsByCategory(t)
        \/ DecideSeed(t)
        \/ SeedAddArticle(t)
        \/ SeedCommit(t)
        \/ SeedDone(t)
        \/ GetKnowledgeBaseReturn(t)

SpecStartup == Init /\ [][NextStartup]_vars

\* ------------------------------------------------------------------------
\* Properties
\* ------------------------------------------------------------------------

\* (title, source) is unique in the table
UniqueKey ==
    \A i, j \in 1..Len(articles) :
        (articles[i].title = articles[j].title /\ articles[i].source = articles[j].source)
            => i = j

\* what one add_article call does to the table
AddEffect ==
    (ret.op = "none" /\ ret'.op = "add_article") =>
        LET a == ret'.args
            i == RowIndex(a.title, a.source)
        IN  /\ i /= 0 => /\ Len(articles') = Len(articles)
                         /\ ret'.value = articles[i].id
                         /\ articles'[i].id = articles[i].id
            /\ \E j \in 1..Len(articles') :
                   /\ articles'[j].title = a.title /\ articles'[j].source = a.source
                   /\ articles'[j].id = ret'.value
                   /\ articles'[j].content = a.content
                   /\ articles'[j].category = a.category
                   /\ articles'[j].url = a.url

\* C1: after any sequence of add_article calls the table holds at most one
\* article per (title, source); a call whose pair already exists adds no row,
\* returns the id of the existing row and leaves it with the content,
\* category and url of that call.
C1_UpsertByTitleSource == [](UniqueKey) /\ [][AddEffect]_vars

\* a second call for a stored pair has returned the id of the first
C1_Witness ==
    /\ ret.op = "add_article"
    /\ seq >= 2
    /\ ret.value < seq
    /\ \E j \in 1..Len(articles) :
           articles[j].id = ret.value /\ articles[j].last_updated = seq

\* C2: for every query (empty, whitespace only and punctuation only included)
\* and every optional category, search returns a list and raises nothing.
C2_SearchNeverRaises == ret.op = "search" => ~ret.raised

SourceTags == {"gemini", "gemini+knowledge", "knowledge", "offline", "none"}

\* C3: every generate call ends with an AIResponse and raises nothing,
\* whatever the remote service and the knowledge store do.
C3_GenerateAlwaysResponds ==
    ret.op = "generate" =>
        /\ ~ret.raised
        /\ DOMAIN ret.value = {"text", "confidence", "source", "is_offline", "knowledge_used"}
        /\ ret.value.source \in SourceTags
        /\ ret.value.text /= <<>>

\* the store raised inside the lookup, the remote call raised, and generate
\* still returned a response
C3_Witness ==
    /\ ret.op = "generate"
    /\ ~ret.raised
    /\ ret.knowledge_error = "OperationalError"
    /\ ret.remote = "failed"

\* the lookup is the first call of the log, with max_tokens = 2000
LookupFirst(log) ==
    /\ Len(log) >= 1
    /\ log[1].call = "build_context"
    /\ log[1].max_tokens = 2000

\* every remote call of the log has the lookup before it
LookupBeforeRemote(log) ==
    \A i \in 1..Len(log) :
        log[i].call = "generate_content" =>
            \E j \in 1..(i - 1) : log[j].call = "build_context" /\ log[j].max_tokens = 2000

\* C4: with knowledge use enabled and a store available, build_context with
\* max_tokens = 2000 is called before any remote call, whether the remote
\* service is configured or not.
C4_LookupBeforeRemote ==
    /\ (gen.pc \in {"step2", "remote"} /\ gen.use_knowledge /\ llm.kb /= NoneVal)
           => LookupFirst(gen.log) /\ LookupBeforeRemote(gen.log)
    /\ (ret.op = "generate" /\ ret.args.use_knowledge /\ llm.kb /= NoneVal)
           => LookupFirst(ret.log) /\ LookupBeforeRemote(ret.log)

\* the remote call is in flight after the lookup
C4_Witness ==
    /\ gen.pc = "remote"
    /\ gen.use_knowledge
    /\ llm.kb /= NoneVal
    /\ Len(gen.log) = 2
    /\ gen.knowledge_context /= <<>>

\* generate has returned without a remote result
NoRemoteResult == ret.op = "generate" /\ ~ret.raised /\ ret.remote \in {"not_attempted", "failed"}

\* C5: without a remote result and with a non-empty knowledge context the
\* response is (0.75, "knowledge", offline) with the titles of the lookup,
\* the context verbatim in the text between the preamble and the annotation,
\* on the offline path and on the failure path alike.
C5_KnowledgeAnswer ==
    (NoRemoteResult /\ ret.knowledge_context /= <<>>) =>
        /\ ret.value.confidence = 75
        /\ ret.value.source = "knowledge"
        /\ ret.value.is_offline
        /\ ret.value.knowledge_used = ret.knowledge_titles
        /\ Contains(ret.value.text, ret.knowledge_context)
        /\ Head(ret.value.text) = "<Based on my knowledge base (>"
        /\ ret.value.text[Len(ret.value.text)] = OfflineNote[1]

\* the remote call failed and the answer came from the knowledge context
C5_Witness ==
    /\ NoRemoteResult
    /\ ret.remote = "failed"
    /\ ret.knowledge_context /= <<>>
    /\ ret.value.source = "knowledge"
    /\ Len(ret.knowledge_titles) >= 2

\* a canned entry matches the prompt: a greeting occurs in it, it is a help
\* phrase, or a topic keyword occurs in it
CannedMatch(prompt) ==
    \/ \E g \in greetings : Contains(Lower(prompt), g)
    \/ Strip(Lower(prompt)) \in help_phrases
    \/ \E k \in 1..Len(topic_keywords) :
           \E kw \in topic_keywords[k].keywords : Contains(Lower(prompt), kw)

\* the answer is taken from the canned topic table
CannedAnswer ==
    NoRemoteResult /\ ret.knowledge_context = <<>> /\ CannedMatch(ret.args.prompt)

\* C6 as stated: a canned answer has the canned tag, is offline and has a
\* confidence in [0.6, 0.7], also after a failed remote call.
C6_CannedConfidenceRange ==
    CannedAnswer =>
        /\ ret.value.source = "offline"
        /\ ret.value.is_offline
        /\ ret.value.confidence >= 60 /\ ret.value.confidence <= 70

\* C6 amended: a canned answer has the canned tag and is offline; its
\* confidence is 0.6 when the remote call was not attempted and 0.5 when
\* it was attempted and failed.
C6_CannedConfidence ==
    CannedAnswer =>
        /\ ret.value.source = "offline"
        /\ ret.value.is_offline
        /\ ret.value.confidence = (IF ret.remote = "failed" THEN 50 ELSE 60)

\* a canned answer given after a failed remote call
C6_Witness ==
    /\ CannedAnswer
    /\ ret.remote = "failed"
    /\ ret.args.prompt = Q_df
    /\ ret.value.confidence = 50

\* C7: not configured, no knowledge context, no canned match: the response
\* is (0.3, canned tag, offline) with the generic offline message as text.
C7_GenericOffline ==
    (/\ ret.op = "generate"
     /\ llm.model = NoneVal
     /\ ret.knowledge_context = <<>>
     /\ ~CannedMatch(ret.args.prompt)) =>
        /\ ~ret.raised
        /\ ret.value.confidence = 30
        /\ ret.value.source = "offline"
        /\ ret.value.is_offline
        /\ ret.value.text = << "<OFFLINE_RESPONSES.offline>" >>

\* the generic offline message has been returned by an unconfigured object
C7_Witness ==
    /\ ret.op = "generate"
    /\ llm.model = NoneVal
    /\ ret.args.prompt = Q_zz
    /\ ret.value.confidence = 30

\* C8: confidence is 0.0 exactly when the source is "none", and that
\* response is returned only when there is no remote result, no knowledge
\* context and no canned match.
C8_TerminalFallback ==
    (ret.op = "generate" /\ ~ret.raised) =>
        /\ (ret.value.confidence = 0) <=> (ret.value.source = "none")
        /\ ret.value.source = "none" =>
               /\ ret.remote /= "ok"
               /\ ret.knowledge_context = <<>>
               /\ ~CannedMatch(ret.args.prompt)

\* the terminal response has been returned
C8_Witness ==
    /\ ret.op = "generate"
    /\ ~ret.raised
    /\ ret.value.source = "none"
    /\ ret.value.confidence = 0
    /\ ret.remote = "failed"

\* C9: a successful remote call gives the remote text with (0.95, online),
\* the titles of the lookup, and the +knowledge tag exactly when a non-empty
\* knowledge context was put into the prompt.
C9_RemoteSuccess ==
    (ret.op = "generate" /\ ~ret.raised /\ ret.remote = "ok") =>
        /\ ret.value.text \in RemoteTexts
        /\ ret.value.confidence = 95
        /\ ~ret.value.is_offline
        /\ ret.value.knowledge_used = ret.knowledge_titles
        /\ ret.value.source \in {"gemini", "gemini+knowledge"}
        /\ (ret.value.source = "gemini+knowledge") <=>
               /\ ret.knowledge_context /= <<>>
               /\ ret.enhanced_prompt /= ret.args.prompt
               /\ Contains(ret.enhanced_prompt, ret.knowledge_context)
        /\ (ret.value.source = "gemini") => ret.enhanced_prompt = ret.args.prompt

\* a remote answer with knowledge and one without
C9_Witness ==
    /\ ret.op = "generate"
    /\ ret.remote = "ok"
    /\ ret.value.source = "gemini+knowledge"
    /\ ret.knowledge_titles /= <<>>

\* C10: is_offline is false exactly for the remote and remote+knowledge
\* tags, which are the responses made from a remote result, and true for
\* every knowledge, canned and none response.
C10_OfflineFlag ==
    (ret.op = "generate" /\ ~ret.raised) =>
        /\ ~ret.value.is_offline <=> ret.value.source \in {"gemini", "gemini+knowledge"}
        /\ (ret.remote = "ok") <=> ret.value.source \in {"gemini", "gemini+knowledge"}
        /\ ret.value.source \in {"knowledge", "offline", "none"} => ret.value.is_offline

\* a canned answer after a failed remote call carries is_offline
C10_Witness ==
    /\ ret.op = "generate"
    /\ ~ret.raised
    /\ ret.remote = "failed"
    /\ ret.value.source = "offline"
    /\ ret.value.is_offline

\* weak fairness of step 1: the step is enabled exactly when gen.pc = "step1"
FairStep1 == []<>(gen.pc /= "step1") \/ []<><<GenerateStep1>>_vars

\* the interpreter runs the steps of a call that has begun; when, and
\* whether, the remote service answers is not the program's to decide, and
\* generate_content is called without a timeout (llm.py line 522)
SpecLive ==
    /\ Spec
    /\ FairStep1
    /\ WF_vars(GenerateOffline)
    /\ WF_vars(GenerateRemoteCall)
    /\ WF_vars(Return)

\* C11: the remote completion call is bounded by a timeout; a call that
\* waits for the remote service eventually returns to its caller, also when
\* the service never answers.
C11_RemoteCallBounded == (gen.pc = "remote") ~> (gen.pc = "idle")

\* the index entry of a row, as the triggers write it
IndexedColumns(row) ==
    [title |-> row.title, content |-> row.content, category |-> row.category]

\* the committed table and the committed index describe the same rows
FtsInStep ==
    /\ DOMAIN articles_fts = {articles[i].id : i \in 1..Len(articles)}
    /\ \A i \in 1..Len(articles) :
           articles_fts[articles[i].id] = IndexedColumns(articles[i])

\* C12: a reader never observes the article table and the full-text index
\* out of step: in every state a search or get_article can read, also while
\* add_article has a write in progress, the indexed row ids are the article
\* ids and each entry holds the title, content and category of its row; what
\* get_article returns is a row of that table.
C12_ReaderSeesIndexInStep ==
    /\ FtsInStep
    /\ (ret.op = "get_article" /\ ret.found) =>
           /\ ret.value.id = ret.args.article_id
           /\ ret.value.id \in DOMAIN articles_fts

\* a search has returned while add_article held an uncommitted update of a
\* row that the committed database still shows with its old content
C12_Witness ==
    /\ txn.open
    /\ ret.op = "search"
    /\ Len(txn.articles) = Len(articles)
    /\ txn.articles /= articles
    /\ txn.articles_fts /= articles_fts

\* the ranked statement was rejected and the LIKE fallback answered
OnFallbackPath(query) == ~Fts5Parse(prepare_query(query)).ok

\* C17: every search call that returns gives at most limit results, listed
\* in non-increasing order of the score the caller sees; every score is
\* non-negative, and the results of the fallback path share one constant.
C17_SearchOrderedAndBounded ==
    (ret.op = "search" /\ ~ret.raised) =>
        /\ Len(ret.value) <= ret.args.limit
        /\ \A k \in 1..Len(ret.value) : ret.value[k].score >= 0
        /\ \A k \in 1..(Len(ret.value) - 1) :
               ret.value[k].score >= ret.value[k + 1].score
        /\ OnFallbackPath(ret.args.query) =>
               \A k \in 1..Len(ret.value) : ret.value[k].score = ret.value[1].score

\* a ranked search has put the later row first because it matches better
C17_Witness ==
    /\ ret.op = "search"
    /\ ~ret.raised
    /\ Len(ret.value) = 2
    /\ ret.value[1].score > ret.value[2].score
    /\ ret.value[1].article.id > ret.value[2].article.id

\* C18: when search is called with a category, every returned article has
\* exactly that category, on the ranked path and on the fallback path alike,
\* fallback queries of several words included.
C18_CategoryFilter ==
    (ret.op = "search" /\ ~ret.raised /\ ret.args.category /= NoCategory) =>
        \A k \in 1..Len(ret.value) : ret.value[k].article.category = ret.args.category

\* the characters of the parts in a list
RECURSIVE TotalLen(_)
TotalLen(parts) == IF parts = <<>> THEN 0 ELSE Len(Head(parts)) + TotalLen(Tail(parts))

\* the entries of a context: context_parts without the leading header
EntriesOf(context_parts) == Tail(context_parts)

\* C19: the characters build_context spends on article entries (heading
\* plus content of each entry, truncation marker included) never exceed
\* max_tokens * 4 in total; with max_tokens = 10 the context is at most 40
\* characters plus the heading's fixed overhead and holds at most one
\* article.
C19_ContextBudget ==
    (ret.op = "build_context" /\ ~ret.raised /\ ret.context_parts /= <<>>) =>
        /\ TotalLen(EntriesOf(ret.context_parts)) <= ret.args.max_tokens * 4
        /\ ret.args.max_tokens = 10 =>
               /\ Len(EntriesOf(ret.context_parts)) <= 1
               /\ Len(ret.value.context) <= 40 + Len(ContextHeader) + 1

\* titles = [r.article.title for r in results]
TitlesOf(results) == [i \in 1..Len(results) |-> results[i].article.title]

\* entry is the context entry of article: it begins with the article's heading
IsEntryOf(entry, article) ==
    /\ Len(EntryHeading(article)) <= Len(entry)
    /\ SubSeq(entry, 1, Len(EntryHeading(article))) = EntryHeading(article)

\* C20: knowledge_used lists, in order, exactly the titles of the articles
\* that contributed to the context: the results build_context hands back,
\* whose titles _search_knowledge lists, each have their entry in the
\* context text, and a title in a response's knowledge_used has its heading
\* in the context of that call.
C20_KnowledgeUsedContributed ==
    /\ (ret.op = "build_context" /\ ~ret.raised /\ ret.value.results /= <<>>) =>
           /\ Len(TitlesOf(ret.value.results)) = Len(EntriesOf(ret.context_parts))
           /\ \A i \in 1..Len(ret.value.results) :
                  /\ i <= Len(EntriesOf(ret.context_parts))
                  /\ IsEntryOf(EntriesOf(ret.context_parts)[i], ret.value.results[i].article)
    /\ (ret.op = "generate" /\ ~ret.raised) =>
           \A i \in 1..Len(ret.value.knowledge_used) :
               Contains(ret.knowledge_context,
                        <<"\n", "#", "#", "#", " ">> \o ret.value.knowledge_used[i])

\* the position of an intent in PATTERNS
IntentPos(intent) == CHOOSE k \in 1..Len(PATTERNS) : PATTERNS[k].intent = intent

\* some pattern of the intent at position k matches somewhere in text
SomePatternMatches(k, text) ==
    \E p \in 1..Len(PATTERNS[k].patterns) : re_search(PATTERNS[k].patterns[p], text).found

NoEarlierIntentMatches(k, text) ==
    \A j \in 1..(k - 1) : ~SomePatternMatches(j, text)

\* C13: classify returns intent I exactly when some pattern of I matches
\* somewhere in the trimmed input and no pattern of an intent declared before
\* I matches: the earlier-declared intent wins, whatever a later pattern says.
C13_FirstDeclaredIntentWins ==
    ret.op = "classify" =>
        /\ ~ret.raised
        /\ \A k \in 1..Len(PATTERNS) :
             (ret.value.intent = PATTERNS[k].intent) <=>
                 /\ SomePatternMatches(k, Strip(ret.args.text))
                 /\ NoEarlierIntentMatches(k, Strip(ret.args.text))

\* "install kde" is an INSTALL_PACKAGE although a pattern of INSTALL_DESKTOP,
\* declared last, matches it too
C13_Witness ==
    /\ ret.op = "classify"
    /\ ret.args.text = <<"i", "n", "s", "t", "a", "l", "l", " ", "k", "d", "e">>
    /\ ~ret.raised
    /\ ret.value.intent = "INSTALL_PACKAGE"
    /\ SomePatternMatches(IntentPos("INSTALL_DESKTOP"), Strip(ret.args.text))
    /\ IntentPos("INSTALL_PACKAGE") < IntentPos("INSTALL_DESKTOP")

\* C14: classify yields confidence 0.5 if and only if the intent is UNKNOWN
\* and 0.9 for every other intent, and an UNKNOWN result has no entities.
C14_ConfidenceByIntent ==
    ret.op = "classify" =>
        /\ ~ret.raised
        /\ (ret.value.confidence = 50) <=> (ret.value.intent = "UNKNOWN")
        /\ (ret.value.intent /= "UNKNOWN") => (ret.value.confidence = 90)
        /\ (ret.value.intent = "UNKNOWN") => (DOMAIN ret.value.entities = {})

C14_Witness ==
    /\ ret.op = "classify"
    /\ ret.args.text = <<"t", "h", "e", " ", "q", "u", "i", "c", "k", " ", "b", "r", "o", "w", "n", " ", "f", "o", "x">>
    /\ ~ret.raised
    /\ ret.value.intent = "UNKNOWN"
    /\ ret.value.confidence = 50
    /\ DOMAIN ret.value.entities = {}

FillerWords ==
    { <<"t", "h", "e">>, <<"a">>, <<"a", "n">>, <<"p", "a", "c", "k", "a", "g", "e">>,
      <<"a", "p", "p">>, <<"a", "p", "p", "l", "i", "c", "a", "t", "i", "o", "n">>,
      <<"p", "r", "o", "g", "r", "a", "m">> }

\* s begins with the word w followed by whitespace
StartsWithWord(s, w) ==
    /\ Len(s) > Len(w)
    /\ SubSeq(s, 1, Len(w)) = w
    /\ IsSpace(s[Len(w) + 1])

\* s ends with whitespace followed by the word w
EndsWithWord(s, w) ==
    /\ Len(s) > Len(w)
    /\ SubSeq(s, Len(s) - Len(w) + 1, Len(s)) = w
    /\ IsSpace(s[Len(s) - Len(w)])

\* C15: for the install, remove and search package intents package_name is
\* trimmed and neither starts nor ends with one of the filler words the, a,
\* an, package, app, application, program as a separate word.
C15_NoFillerWordsLeft ==
    (/\ ret.op = "classify"
     /\ ~ret.raised
     /\ ret.value.intent \in PackageIntents) =>
        /\ "package_name" \in DOMAIN ret.value.entities
        /\ Strip(ret.value.entities["package_name"]) = ret.value.entities["package_name"]
        /\ \A w \in FillerWords :
             /\ ~StartsWithWord(Lower(ret.value.entities["package_name"]), w)
             /\ ~EndsWithWord(Lower(ret.value.entities["package_name"]), w)

DesktopNames ==
    { <<"k", "d", "e">>, <<"g", "n", "o", "m", "e">>, <<"x", "f", "c", "e">>, <<"c", "i", "n", "n", "a", "m", "o", "n">>,
      <<"m", "a", "t", "e">>, <<"i", "3">>, <<"s", "w", "a", "y">>, <<"h", "y", "p", "r", "l", "a", "n", "d">> }

\* C16: whenever classify returns INSTALL_DESKTOP the desktop entity is
\* present, lower case and one of kde, gnome, xfce, cinnamon, mate, i3, sway,
\* hyprland; "plasma" in any letter case is reported as "kde".
C16_DesktopNormalised ==
    (/\ ret.op = "classify"
     /\ ~ret.raised
     /\ ret.value.intent = "INSTALL_DESKTOP") =>
        /\ "desktop" \in DOMAIN ret.value.entities
        /\ Lower(ret.value.entities["desktop"]) = ret.value.entities["desktop"]
        /\ ret.value.entities["desktop"] \in DesktopNames
        /\ ret.value.entities["desktop"] /= <<"p", "l", "a", "s", "m", "a">>

C16_Witness ==
    /\ ret.op = "classify"
    /\ ret.args.text = <<"s", "w", "i", "t", "c", "h", " ", "t", "o", " ", "P", "l", "a", "s", "m", "a">>
    /\ ~ret.raised
    /\ ret.value.intent = "INSTALL_DESKTOP"
    /\ ret.value.entities["desktop"] = <<"k", "d", "e">>

\* the terms of the prepared query
PreparedTerms(query) == Fts5Parse(prepare_query(query)).terms

\* C22: query preparation never yields an empty query for a non-empty input:
\* when every token is dropped the prepared query is the lower-cased original
\* query, punctuation kept; otherwise it is the OR of at most the first 10
\* kept tokens, each a prefix match, none a stop word or a single character.
C22_PreparedQuery ==
    (ret.op = "search" /\ ret.args.query /= <<>>) =>
        /\ prepare_query(ret.args.query) /= <<>>
        /\ (KeptWords(ret.args.query) = <<>>) =>
               prepare_query(ret.args.query) = Lower(ret.args.query)
        /\ (KeptWords(ret.args.query) /= <<>>) =>
               /\ Len(PreparedTerms(ret.args.query)) <= 10
               /\ Len(PreparedTerms(ret.args.query)) > 1 =>
                      Fts5Parse(prepare_query(ret.args.query)).isOr
               /\ \A k \in 1..Len(PreparedTerms(ret.args.query)) :
                      /\ PreparedTerms(ret.args.query)[k].prefix
                      /\ KeptWord(PreparedTerms(ret.args.query)[k].word)

\* the stored content of the article a result describes
ContentOfId(id) == articles[CHOOSE i \in 1..Len(articles) : articles[i].id = id].content

\* the snippet is the window around an occurrence of one of the words
IsWindowSnippet(snippet, content, words) ==
    \E k \in 1..Len(words) :
        /\ Contains(Lower(content), words[k])
        /\ snippet = SnippetWindow(content, Find(Lower(content), words[k]))

\* C27: in the substring fallback search the snippet of a result is the
\* window around an occurrence of a query word whenever one of the query
\* words occurs anywhere in the content, the first character included; the
\* prefix snippet is used only when none of the words occurs in the content.
C27_FallbackSnippetWindow ==
    (ret.op = "search" /\ ~ret.raised /\ OnFallbackPath(ret.args.query)) =>
        \A k \in 1..Len(ret.value) :
            IF \E w \in 1..Len(FallbackWords(ret.args.query)) :
                   Contains(Lower(ContentOfId(ret.value[k].article.id)),
                            FallbackWords(ret.args.query)[w])
            THEN IsWindowSnippet(ret.value[k].snippet,
                                 ContentOfId(ret.value[k].article.id),
                                 FallbackWords(ret.args.query))
            ELSE ret.value[k].snippet =
                     Take(ContentOfId(ret.value[k].article.id), 150) \o Ellipsis

\* entry is the entry of article: its heading, then its content, whole or
\* cut and marked, then a newline
IsWholeEntryOf(entry, article) ==
    \/ entry = EntryHeading(article) \o article.content \o <<"\n">>
    \/ \E n \in 0..Len(article.content) :
           entry = EntryHeading(article) \o Take(article.content, n) \o Ellipsis \o <<"\n">>

\* C24: the entries of the context built by build_context are a prefix of
\* the search results in result order: no result is skipped in favour of a
\* later one, and the first result without an entry is one for which no
\* budget was left.
C24_EntriesArePrefixOfResults ==
    (ret.op = "build_context" /\ ~ret.raised /\ ret.value.results /= <<>>) =>
        /\ Len(EntriesOf(ret.context_parts)) <= Len(ret.value.results)
        /\ \A i \in 1..Len(EntriesOf(ret.context_parts)) :
               IsWholeEntryOf(EntriesOf(ret.context_parts)[i], ret.value.results[i].article)
        /\ Len(EntriesOf(ret.context_parts)) < Len(ret.value.results) =>
               ret.args.max_tokens * 4 - TotalLen(EntriesOf(ret.context_parts))
                   - Len(EntryHeading(
                         ret.value.results[Len(EntriesOf(ret.context_parts)) + 1].article))
                   <= 0

\* two results, and the budget was used up by the entry of the first
C24_Witness ==
    /\ ret.op = "build_context"
    /\ ~ret.raised
    /\ Len(ret.value.results) = 2
    /\ Len(EntriesOf(ret.context_parts)) = 1
    /\ IsWholeEntryOf(EntriesOf(ret.context_parts)[1], ret.value.results[1].article)

\* the order of the topics as the table is to be read
TopicOrder ==
    << "install", "remove", "update", "snapshot", "rollback", "disk", "memory",
       "windows", "macos", "python", "git" >>

\* a keyword of the topic at position k occurs in the text
TopicOccurs(k, text) == \E kw \in topic_keywords[k].keywords : Contains(text, kw)

GreetingOccurs(text) == \E g \in greetings : Contains(text, g)

\* C25: the canned lookup is a fixed-order first match: the greeting
\* response if a greeting phrase occurs in the lower-cased query, else the
\* help response if the trimmed query equals a help phrase, else the
\* response of the first topic, in the order install, remove, update,
\* snapshot, rollback, disk, memory, windows, macos, python, git, one of
\* whose keywords occurs, else no match.
C25_CannedFirstMatch ==
    /\ Len(topic_keywords) = Len(TopicOrder)
    /\ \A k \in 1..Len(TopicOrder) : topic_keywords[k].topic = TopicOrder[k]
    /\ ret.op = "get_offline_response" =>
        /\ GreetingOccurs(Lower(ret.args.prompt)) =>
               (ret.found /\ ret.value = OFFLINE_RESPONSES("greeting"))
        /\ (/\ ~GreetingOccurs(Lower(ret.args.prompt))
            /\ Strip(Lower(ret.args.prompt)) \in help_phrases) =>
               (ret.found /\ ret.value = OFFLINE_RESPONSES("help"))
        /\ (/\ ~GreetingOccurs(Lower(ret.args.prompt))
            /\ Strip(Lower(ret.args.prompt)) \notin help_phrases) =>
               /\ \A k \in 1..Len(TopicOrder) :
                      (/\ TopicOccurs(k, Lower(ret.args.prompt))
                       /\ \A j \in 1..(k - 1) : ~TopicOccurs(j, Lower(ret.args.prompt))) =>
                          (ret.found /\ ret.value = OFFLINE_RESPONSES(TopicOrder[k]))
               /\ (\A k \in 1..Len(TopicOrder) : ~TopicOccurs(k, Lower(ret.args.prompt))) =>
                      ~ret.found

\* a query with keywords of two topics gets the answer of the earlier one,
\* although the keyword of the later one comes first in the text
C25_Witness ==
    /\ ret.op = "get_offline_response"
    /\ ret.args.prompt = <<"r", "e", "m", "o", "v", "e", " ", "a", "n", "d", " ", "i", "n", "s", "t", "a", "l", "l">>
    /\ TopicOccurs(1, Lower(ret.args.prompt))
    /\ TopicOccurs(2, Lower(ret.args.prompt))
    /\ ret.value = OFFLINE_RESPONSES("install")

\* the desktop names the INSTALL_DESKTOP patterns list
PatternDesktops == DesktopNames \cup { <<"p", "l", "a", "s", "m", "a">> }

\* "install D" and "setup D"
DesktopRequests(D) ==
    { <<"i", "n", "s", "t", "a", "l", "l", " ">> \o D, <<"s", "e", "t", "u", "p", " ">> \o D }

\* C23: an input "install D" or "setup D", with D one of the desktop names
\* of the INSTALL_DESKTOP patterns, is classified as INSTALL_DESKTOP with
\* the normalised desktop entity.
C23_InstallDesktopReached ==
    \A D \in PatternDesktops :
        (/\ ret.op = "classify"
         /\ Lower(Strip(ret.args.text)) \in DesktopRequests(D)) =>
            /\ ~ret.raised
            /\ ret.value.intent = "INSTALL_DESKTOP"
            /\ "desktop" \in DOMAIN ret.value.entities
            /\ ret.value.entities["desktop"] = NormalDesktop(D)

\* the match of the first matching pattern of the intent returned
WinningMatch(intent, text) ==
    re_search(PATTERNS[IntentPos(intent)].patterns[
                  FirstPattern(PATTERNS[IntentPos(intent)].patterns, 1, text)],
              text)

\* group 1 of the match took part in it and is not empty
FirstGroupGiven(text, groups) ==
    /\ Len(groups) >= 1
    /\ ~GroupIsNone(groups, 1)
    /\ GroupText(text, groups, 1) /= <<>>

\* C26: for the ROLLBACK intent snapshot_id is the trimmed first capture
\* group of the winning pattern, present exactly when that group matched a
\* non-empty string: "rollback to X" yields X, a bare "rollback" or "undo
\* changes" yields no snapshot_id.
C26_RollbackSnapshotId ==
    (ret.op = "classify" /\ ~ret.raised /\ ret.value.intent = "ROLLBACK") =>
        /\ ("snapshot_id" \in DOMAIN ret.value.entities) <=>
               FirstGroupGiven(ret.value.raw_text,
                               WinningMatch("ROLLBACK", ret.value.raw_text).groups)
        /\ ("snapshot_id" \in DOMAIN ret.value.entities) =>
               ret.value.entities["snapshot_id"] =
                   Strip(GroupText(ret.value.raw_text,
                                   WinningMatch("ROLLBACK", ret.value.raw_text).groups, 1))
        /\ DOMAIN ret.value.entities \subseteq {"snapshot_id"}
        /\ (ret.args.text = <<"r", "o", "l", "l", "b", "a", "c", "k", " ", "t", "o", " ", "s", "n", "a", "p", "1">>) => (ret.value.entities = OneEntry("snapshot_id", <<"s", "n", "a", "p", "1">>))
        /\ (ret.args.text \in { <<"r", "o", "l", "l", "b", "a", "c", "k">>, <<"u", "n", "d", "o", " ", "c", "h", "a", "n", "g", "e", "s">> }) => (DOMAIN ret.value.entities = {})

C26_Witness ==
    /\ ret.op = "classify"
    /\ ret.args.text = <<"r", "o", "l", "l", "b", "a", "c", "k", " ", "t", "o", " ", "s", "n", "a", "p", "1">>
    /\ ~ret.raised
    /\ ret.value.intent = "ROLLBACK"
    /\ ret.value.entities["snapshot_id"] = <<"s", "n", "a", "p", "1">>

\* C29: generate never modifies the offline flag, the model handle or the
\* knowledge-store handle, a failed remote call included: a configured
\* object attempts the remote call in every request and an unconfigured one
\* in none.
C29_GenerateLeavesObjectUnchanged ==
    [][/\ llm' = llm
       /\ (ret'.op = "generate") =>
              ((ret'.remote /= "not_attempted") <=> ~is_offline)]_vars

\* a remote call has failed and the object is still in online mode
C29_Witness ==
    /\ ret.op = "generate"
    /\ ret.remote = "failed"
    /\ ~is_offline
    /\ ~llm.is_offline_flag
    /\ llm.model /= NoneVal

\* C21: the lazy singleton is initialised once: under any interleaving of
\* concurrent first calls of get_knowledge_base exactly one KnowledgeBase is
\* constructed and every caller, first or later, receives that instance.
C21_SingleInstance ==
    /\ made <= 1
    /\ \A t, u \in Threads :
           (callers[t].pc = "done" /\ callers[u].pc = "done") =>
               callers[t].result = callers[u].result

\* the sum of the counts of a GROUP BY
RECURSIVE SumCounts(_, _)
SumCounts(counts, keys) ==
    IF keys = {} THEN 0
    ELSE SumCounts(counts, keys \ {CHOOSE k \in keys : TRUE})
             + counts[CHOOSE k \in keys : TRUE]

\* C28: get_stats reports a consistent snapshot: total_articles equals the
\* sum of the by_source counts and the sum of the by_category counts, also
\* when add_article calls of other callers commit while get_stats runs.
C28_StatsConsistent ==
    \A t \in Threads :
        ("stats" \in DOMAIN callers[t]) =>
            /\ callers[t].stats.total_articles =
                   SumCounts(callers[t].stats.by_source, DOMAIN callers[t].stats.by_source)
            /\ callers[t].stats.total_articles =
                   SumCounts(callers[t].stats.by_category,
                             DOMAIN callers[t].stats.by_category)

\* the (title, source) pairs of a list of articles are all different
DistinctPairs(list) ==
    \A i, j \in 1..Len(list) :
        (list[i].title = list[j].title /\ list[i].source = list[j].source) => i = j

\* a seeding run has been made and none is under way
SeedingOver ==
    /\ articles /= <<>>
    /\ \A t \in Threads : callers[t].pc \notin {"seed", "commit"}

\* each built-in article is stored exactly once, with its built-in values
SeededOnce ==
    /\ Len(articles) = Len(SeedArticles)
    /\ DistinctPairs(articles)
    /\ \A k \in 1..Len(SeedArticles) :
           \E i \in 1..Len(articles) :
               /\ articles[i].title = SeedArticles[k].title
               /\ articles[i].source = SeedArticles[k].source
               /\ articles[i].content = SeedArticles[k].content
               /\ articles[i].category = SeedArticles[k].category
               /\ articles[i].url = SeedArticles[k].url

\* a row keeps its place, its id and its (title, source)
RowsKeepIds ==
    /\ Len(articles') >= Len(articles)
    /\ \A i \in 1..Len(articles) :
           /\ articles'[i].id = articles[i].id
           /\ articles'[i].title = articles[i].title
           /\ articles'[i].source = articles[i].source

\* C30: seeding is idempotent, also under a racing first use: the built-in
\* lists hold 12 different (title, source) pairs, after any number of
\* seeding runs, one after another or interleaved, each pair of the lists is
\* stored exactly once with its built-in content, and the id a first
\* insertion assigned never changes.
C30_SeedingIdempotent ==
    [][/\ Len(CORE_ARCHWIKI_ARTICLES) + Len(koompi_articles) = 12
       /\ DistinctPairs(CORE_ARCHWIKI_ARTICLES \o koompi_articles)
       /\ RowsKeepIds
       /\ SeedingOver' => SeededOnce']_vars

\* two callers saw the store empty and both have seeded it
C30_Witness ==
    /\ SeedingOver
    /\ seq = 2 * Len(SeedArticles)
    /\ Len(articles) = Len(SeedArticles)
    /\ \A t \in Threads : callers[t].pc = "done"

====
